---- MODULE Spec2Model ----
(***************************************************************************)
(* Model of ClienteYFinanceMCP (src/main.py): symbol resolution, the bar   *)
(* normalizer and the four retrieval operations, run against a provider    *)
(* (yfinance) that may raise, return an empty frame, or return rows.       *)
(*                                                                         *)
(* The client is single-threaded and synchronous.  One operation runs at a *)
(* time; it issues provider requests one after the other and the provider  *)
(* answers each of them.  A handler is written as a function of the        *)
(* answers received so far: it yields the next provider request, or the    *)
(* value it returns, or the exception it lets escape.                      *)
(***************************************************************************)
EXTENDS Integers, Sequences, FiniteSets, TLC

VARIABLES
    cache,   \* self._activos_cache: domain symbol -> ActivoFinanciero
    pc,      \* "idle", or "waiting" for the provider's answer to the last request
    op,      \* the operation being run (or the last one run) and its arguments
    calls,   \* the provider requests issued by that operation, in order
    rs,      \* the provider's answers to them, in order
    ret      \* the outcome of the last operation that finished

vars == <<cache, pc, op, calls, rs, ret>>

(***************************************************************************)
(* Python values                                                           *)
(***************************************************************************)
None == [kind |-> "None"]

\* A missing cell of a DataFrame.  Prices and volumes are non-negative.
NaN == -1

isna(v) == v = NaN

EndsWith(s, suffix) ==
    /\ Len(s) >= Len(suffix)
    /\ SubSeq(s, Len(s) - Len(suffix) + 1, Len(s)) = suffix

\* '.' in s
HasDot(s) == \E i \in 1..Len(s) : SubSeq(s, i, i) = "."

\* What a handler does next.
Call(req) == [kind |-> "call", req |-> req]
Return(v) == [kind |-> "return", value |-> v]
Raise(e)  == [kind |-> "raise", error |-> e]

(***************************************************************************)
(* Bounds of the model                                                     *)
(***************************************************************************)
\* Longest frame the provider returns to obtener_historico,
\* obtener_ultima_cotizacion and obtener_activo.
MaxRows == 2

\* Longest symbol list handed to obtener_cotizaciones_multiples.
MaxBatch == 2

\* Longest frame handed to the normalizer on its own.
MaxNormRows == 2

\* Longest list of search results, but for the one list longer than
\* MaxResultados.
MaxHits == 2

\* Clock ticks per calendar day (a datetime is a tick count).
TicksPerDay == 2

\* datetime.now(), in ticks.
NowTick == 801

(***************************************************************************)
(* SymbolResolver                                                          *)
(***************************************************************************)
SIMBOLOS_MAPPING ==
    ("GGAL" :> "GGAL.BA") @@ ("PAMP" :> "PAMP.BA") @@ ("YPF" :> "YPFD.BA") @@
    ("YPFD" :> "YPFD.BA") @@ ("TXAR" :> "TXAR.BA") @@ ("BYMA" :> "BYMA.BA") @@
    ("BBAR" :> "BBAR.BA") @@ ("CEPU" :> "CEPU.BA") @@ ("TRAN" :> "TRAN.BA") @@
    ("TGNO4" :> "TGNO4.BA") @@ ("TGSU2" :> "TGSU2.BA") @@ ("LOMA" :> "LOMA.BA") @@
    ("BMA" :> "BMA.BA") @@ ("SUPV" :> "SUPV.BA") @@ ("CRES" :> "CRES.BA") @@
    ("ALUA" :> "ALUA.BA") @@ ("COME" :> "COME.BA") @@ ("MIRG" :> "MIRG.BA") @@
    ("HARG" :> "HARG.BA") @@ ("VALO" :> "VALO.BA") @@
    ("GGAL.ADR" :> "GGAL") @@ ("YPF.ADR" :> "YPF") @@ ("BMA.ADR" :> "BMA") @@
    ("SUPV.ADR" :> "SUPV") @@ ("LOMA.ADR" :> "LOMA") @@ ("BBAR.ADR" :> "BBAR") @@
    ("PAM.ADR" :> "PAM") @@ ("TEO.ADR" :> "TEO") @@ ("TGS.ADR" :> "TGS") @@
    ("ARGT" :> "ARGT") @@
    ("MERVAL" :> "^MERV")

\* Mutant of _get_yahoo_symbol: the .ADR suffix is not recognised.
_get_yahoo_symbol_sin_adr(simbolo) ==
    IF simbolo \in DOMAIN SIMBOLOS_MAPPING
    THEN SIMBOLOS_MAPPING[simbolo]
    ELSE IF ~EndsWith(simbolo, ".BA")
         THEN simbolo \o ".BA"
         ELSE simbolo

_get_yahoo_symbol(simbolo) ==
    IF simbolo \in DOMAIN SIMBOLOS_MAPPING
    THEN SIMBOLOS_MAPPING[simbolo]
    ELSE IF ~EndsWith(simbolo, ".BA") /\ ~EndsWith(simbolo, ".ADR")
         THEN simbolo \o ".BA"
         ELSE simbolo

(***************************************************************************)
(* BarSeriesNormalizer                                                     *)
(*                                                                         *)
(* A DataFrame is a sequence of rows.  A row is a record with the fields   *)
(* index (its timestamp), Open, High, Low, Close and, when the frame has   *)
(* that column, Volume.                                                    *)
(***************************************************************************)
\* A datetime and a pandas Timestamp, both a count of clock ticks.
datetime(t)  == [kind |-> "datetime", tick |-> t]
Timestamp(t) == [kind |-> "Timestamp", tick |-> t]

\* index.to_pydatetime()
to_pydatetime(index) == datetime(index.tick)

Cotizacion(simbolo, row) ==
    [kind                 |-> "Cotizacion",
     simbolo              |-> simbolo,
     timestamp            |-> to_pydatetime(row.index),
     apertura             |-> row.Open,
     maximo               |-> row.High,
     minimo               |-> row.Low,
     cierre               |-> row.Close,
     volumen_nominal      |-> IF "Volume" \in DOMAIN row /\ ~isna(row.Volume)
                              THEN row.Volume ELSE 0,
     volumen_monto        |-> 0,
     cantidad_operaciones |-> 0,
     ajustado             |-> TRUE]

\* Mutant of SkipRow: the close is not looked at.
SkipRow_sin_cierre(row) ==
    isna(row.Open) \/ isna(row.High) \/ isna(row.Low)

\* if pd.isna(row['Open']) or ... : continue
SkipRow(row) ==
    isna(row.Open) \/ isna(row.High) \/ isna(row.Low) \/ isna(row.Close)

RECURSIVE iterrows(_, _, _, _)
iterrows(df, simbolo, i, cotizaciones) ==
    IF i > Len(df) THEN cotizaciones
    ELSE IF SkipRow(df[i]) THEN iterrows(df, simbolo, i + 1, cotizaciones)
    ELSE iterrows(df, simbolo, i + 1, Append(cotizaciones, Cotizacion(simbolo, df[i])))

_convert_yf_history_to_cotizaciones(df, simbolo) ==
    IF Len(df) = 0 THEN <<>> ELSE iterrows(df, simbolo, 1, <<>>)

(***************************************************************************)
(* The provider (yfinance), as the client uses it                          *)
(***************************************************************************)
\* ticker.history(period=...)
HistoryPeriod(simbolo_yahoo, period) ==
    [cap |-> "history", symbol |-> simbolo_yahoo, period |-> period]

\* ticker.history(start=..., end=..., interval=..., auto_adjust=...)
HistoryRange(simbolo_yahoo, start, end, interval, auto_adjust) ==
    [cap |-> "history", symbol |-> simbolo_yahoo, start |-> start, end |-> end,
     interval |-> interval, auto_adjust |-> auto_adjust]

\* ticker.info
Info(simbolo_yahoo) == [cap |-> "info", symbol |-> simbolo_yahoo]

\* The provider's answers: an exception, a DataFrame, a metadata dict (or None).
Raised(text)    == [kind |-> "raise", error |-> text]
DataFrame(rows) == [kind |-> "DataFrame", rows |-> rows]
Dict(items)     == [kind |-> "dict", items |-> items]

\* df.empty
Empty(df) == Len(df.rows) = 0

\* desde.strftime('%Y-%m-%d'): the calendar day of a datetime
strftime(t) == t \div TicksPerDay

\* timedelta(days=365)
Days365 == 365

(***************************************************************************)
(* obtener_ultima_cotizacion                                               *)
(***************************************************************************)
\* Mutant of ultima_history: the month is asked for before the five days.
ultima_history_reordered(simbolo_yahoo, r) ==
    IF Len(r) = 0 THEN Call(HistoryPeriod(simbolo_yahoo, "1d"))
    ELSE IF r[1].kind = "raise" THEN Return(None)
    ELSE IF ~Empty(r[1]) THEN r[1]
    ELSE IF Len(r) = 1 THEN Call(HistoryPeriod(simbolo_yahoo, "1mo"))
    ELSE IF r[2].kind = "raise" THEN Return(None)
    ELSE IF ~Empty(r[2]) THEN r[2]
    ELSE IF Len(r) = 2 THEN Call(HistoryPeriod(simbolo_yahoo, "5d"))
    ELSE IF r[3].kind = "raise" THEN Return(None)
    ELSE IF Empty(r[3]) THEN Return(None)
    ELSE r[3]

\* The inner try block: the frame to convert, or the next request, or the
\* return of None (no data in any period, or the provider raised).
ultima_history(simbolo_yahoo, r) ==
    IF Len(r) = 0 THEN Call(HistoryPeriod(simbolo_yahoo, "1d"))
    ELSE IF r[1].kind = "raise" THEN Return(None)
    ELSE IF ~Empty(r[1]) THEN r[1]
    ELSE IF Len(r) = 1 THEN Call(HistoryPeriod(simbolo_yahoo, "5d"))
    ELSE IF r[2].kind = "raise" THEN Return(None)
    ELSE IF ~Empty(r[2]) THEN r[2]
    ELSE IF Len(r) = 2 THEN Call(HistoryPeriod(simbolo_yahoo, "1mo"))
    ELSE IF r[3].kind = "raise" THEN Return(None)
    ELSE IF Empty(r[3]) THEN Return(None)
    ELSE r[3]

obtener_ultima_cotizacion(simbolo, r) ==
    LET resolved == _get_yahoo_symbol(simbolo)
        simbolo_yahoo == IF simbolo = "YPF" /\ resolved = "YPF.BA"
                         THEN "YPFD.BA" ELSE resolved
        df == ultima_history(simbolo_yahoo, r)
    IN  IF df.kind # "DataFrame" THEN df
        ELSE LET cotizaciones == _convert_yf_history_to_cotizaciones(df.rows, simbolo)
             IN  IF Len(cotizaciones) = 0 THEN Return(None)
                 ELSE Return(cotizaciones[1])

(***************************************************************************)
(* obtener_cotizaciones_multiples                                          *)
(***************************************************************************)
\* How many of the answers r the call obtener_ultima_cotizacion(simbolo)
\* uses up before it finishes; Len(r) + 1 when it has not finished on r.
RECURSIVE Consumed(_, _, _)
Consumed(simbolo, r, n) ==
    IF n > Len(r) THEN n
    ELSE IF obtener_ultima_cotizacion(simbolo, SubSeq(r, 1, n)).kind # "call" THEN n
    ELSE Consumed(simbolo, r, n + 1)

\* resultado[simbolo] = valor
SetItem(resultado, simbolo, valor) ==
    [s \in DOMAIN resultado \cup {simbolo} |->
        IF s = simbolo THEN valor ELSE resultado[s]]

\* Mutant of multiples_entry: a symbol without a quote gets no entry.
multiples_entry_skips(resultado, simbolo, outcome) ==
    IF outcome.kind = "raise" \/ outcome.value = None
    THEN resultado
    ELSE SetItem(resultado, simbolo, outcome.value)

\* The body of the loop for one symbol, given the outcome of its
\* obtener_ultima_cotizacion call.
multiples_entry(resultado, simbolo, outcome) ==
    IF outcome.kind = "raise"
    THEN SetItem(resultado, simbolo, None)
    ELSE SetItem(resultado, simbolo, outcome.value)

RECURSIVE multiples_loop(_, _, _, _)
multiples_loop(simbolos, i, r, resultado) ==
    IF i > Len(simbolos) THEN Return(resultado)
    ELSE LET n == Consumed(simbolos[i], r, 0)
         IN  IF n > Len(r)
             THEN obtener_ultima_cotizacion(simbolos[i], r)
             ELSE multiples_loop(simbolos, i + 1, SubSeq(r, n + 1, Len(r)),
                     multiples_entry(resultado, simbolos[i],
                        obtener_ultima_cotizacion(simbolos[i], SubSeq(r, 1, n))))

obtener_cotizaciones_multiples(simbolos, r) ==
    multiples_loop(simbolos, 1, r, <<>>)

(***************************************************************************)
(* obtener_historico                                                       *)
(***************************************************************************)
\* class Intervalo: member -> value
Intervalo ==
    ("MINUTO_1" :> "1m") @@ ("MINUTO_2" :> "2m") @@ ("MINUTO_5" :> "5m") @@
    ("MINUTO_15" :> "15m") @@ ("MINUTO_30" :> "30m") @@ ("MINUTO_60" :> "60m") @@
    ("MINUTO_90" :> "90m") @@ ("HORA_1" :> "1h") @@ ("DIA_1" :> "1d") @@
    ("DIA_5" :> "5d") @@ ("SEMANA_1" :> "1wk") @@ ("MES_1" :> "1mo") @@
    ("MES_3" :> "3mo")

SolicitudHistorico(simbolo, desde, hasta, intervalo, ajustado) ==
    [simbolo |-> simbolo, desde |-> desde, hasta |-> hasta,
     intervalo |-> intervalo, ajustado |-> ajustado]

MetadataHistorico(simbolo, desde, hasta, intervalo, registros, ajustado) ==
    [kind |-> "MetadataHistorico", simbolo |-> simbolo, desde |-> desde,
     hasta |-> hasta, intervalo |-> intervalo, registros |-> registros,
     ajustado |-> ajustado]

\* RespuestaHistorico(estado=ERROR, mensaje=..., codigo_error=...)
RespuestaError(mensaje, codigo_error) ==
    [kind |-> "RespuestaHistorico", estado |-> "ERROR", datos |-> <<>>,
     metadata |-> None, mensaje |-> mensaje, codigo_error |-> codigo_error]

\* RespuestaHistorico(estado=OK, datos=..., metadata=...)
RespuestaOK(datos, metadata) ==
    [kind |-> "RespuestaHistorico", estado |-> "OK", datos |-> datos,
     metadata |-> metadata, mensaje |-> None, codigo_error |-> None]

\* str() of the AttributeError a request object without the field raises
NoAttribute(name) == "object has no attribute '" \o name \o "'"

\* The three messages (accents dropped).
MensajeYahoo(simbolo_yahoo, error) ==
    "Error al obtener datos de Yahoo Finance para el simbolo "
        \o simbolo_yahoo \o ": " \o error

MensajeSinDatos(simbolo, simbolo_yahoo) ==
    "No se encontraron datos para el simbolo " \o simbolo
        \o " (" \o simbolo_yahoo \o ") en el periodo solicitado"

MensajeNoProcesados(simbolo, simbolo_yahoo) ==
    "Los datos obtenidos para " \o simbolo \o " (" \o simbolo_yahoo
        \o ") no pudieron ser procesados"

\* Mutant of historico_respuesta: rows that could not be converted are
\* reported as DATA_002, like an empty frame.
historico_respuesta_sin_datos(solicitud, simbolo_yahoo, intervalo, df) ==
    LET cotizaciones ==
            _convert_yf_history_to_cotizaciones(df.rows, solicitud.simbolo)
    IN  IF Len(cotizaciones) = 0
        THEN RespuestaError(MensajeSinDatos(solicitud.simbolo, simbolo_yahoo), "DATA_002")
        ELSE RespuestaOK(cotizaciones,
                 MetadataHistorico(solicitud.simbolo,
                                   cotizaciones[1].timestamp,
                                   cotizaciones[Len(cotizaciones)].timestamp,
                                   intervalo,
                                   Len(cotizaciones),
                                   solicitud.ajustado))

\* Mutant of historico_respuesta: the metadata describes the raw frame, not
\* the bars returned.
historico_respuesta_raw(solicitud, simbolo_yahoo, intervalo, df) ==
    IF Empty(df)
    THEN RespuestaError(MensajeSinDatos(solicitud.simbolo, simbolo_yahoo), "DATA_002")
    ELSE LET cotizaciones ==
                 _convert_yf_history_to_cotizaciones(df.rows, solicitud.simbolo)
         IN  IF Len(cotizaciones) = 0
             THEN RespuestaError(
                      MensajeNoProcesados(solicitud.simbolo, simbolo_yahoo), "DATA_003")
             ELSE RespuestaOK(cotizaciones,
                      MetadataHistorico(solicitud.simbolo,
                                        to_pydatetime(df.rows[1].index),
                                        to_pydatetime(df.rows[Len(df.rows)].index),
                                        intervalo,
                                        Len(df.rows),
                                        solicitud.ajustado))

\* The part after the provider answered with the frame df.
historico_respuesta(solicitud, simbolo_yahoo, intervalo, df) ==
    IF Empty(df)
    THEN RespuestaError(MensajeSinDatos(solicitud.simbolo, simbolo_yahoo), "DATA_002")
    ELSE LET cotizaciones ==
                 _convert_yf_history_to_cotizaciones(df.rows, solicitud.simbolo)
         IN  IF Len(cotizaciones) = 0
             THEN RespuestaError(
                      MensajeNoProcesados(solicitud.simbolo, simbolo_yahoo), "DATA_003")
             ELSE RespuestaOK(cotizaciones,
                      MetadataHistorico(solicitud.simbolo,
                                        cotizaciones[1].timestamp,
                                        cotizaciones[Len(cotizaciones)].timestamp,
                                        intervalo,
                                        Len(cotizaciones),
                                        solicitud.ajustado))

obtener_historico(solicitud, r) ==
    LET simbolo_yahoo == _get_yahoo_symbol(solicitud.simbolo)
        desde == IF solicitud.desde # None THEN solicitud.desde
                 ELSE datetime(NowTick - Days365 * TicksPerDay)
        hasta == IF solicitud.hasta # None THEN solicitud.hasta
                 ELSE datetime(NowTick)
        intervalo == Intervalo[solicitud.intervalo]
    IN  IF "ajustado" \notin DOMAIN solicitud
        THEN Return(RespuestaError(
                 MensajeYahoo(simbolo_yahoo, NoAttribute("ajustado")), "DATA_003"))
        ELSE IF Len(r) = 0
        THEN Call(HistoryRange(simbolo_yahoo, strftime(desde.tick),
                               strftime(hasta.tick), intervalo, solicitud.ajustado))
        ELSE IF r[1].kind = "raise"
        THEN Return(RespuestaError(MensajeYahoo(simbolo_yahoo, r[1].error), "DATA_003"))
        ELSE Return(historico_respuesta(solicitud, simbolo_yahoo, intervalo, r[1]))

(***************************************************************************)
(* obtener_activo                                                          *)
(***************************************************************************)
StartsWith(s, prefix) ==
    Len(s) >= Len(prefix) /\ SubSeq(s, 1, Len(prefix)) = prefix

\* not info or len(info) == 0
NoInfo(answer) == answer.kind = "None" \/ DOMAIN answer.items = {}

\* df = ticker.history(period="1d") of the except branch, answered by a:
\* the stand-in metadata, or None returned through the outer except.
activo_confirmado(simbolo_yahoo, a) ==
    IF a.kind = "raise" THEN Return(None)
    ELSE IF Empty(a) THEN Return(None)
    ELSE Dict([shortName |-> simbolo_yahoo])

\* The nested try blocks: the metadata (a dict), or the next request, or the
\* return of None.
activo_info(simbolo_yahoo, r) ==
    LET history == Call(HistoryPeriod(simbolo_yahoo, "1d"))
    IN  IF Len(r) = 0 THEN Call(Info(simbolo_yahoo))
        ELSE IF r[1].kind = "raise"
        THEN IF Len(r) = 1 THEN history
             ELSE activo_confirmado(simbolo_yahoo, r[2])
        ELSE IF NoInfo(r[1])
        THEN IF Len(r) = 1 THEN history
             ELSE IF r[2].kind = "raise"
             THEN IF Len(r) = 2 THEN history
                  ELSE activo_confirmado(simbolo_yahoo, r[3])
             ELSE IF Empty(r[2]) THEN Return(None)
             ELSE Dict([shortName |-> simbolo_yahoo])
        ELSE r[1]

\* Mutant of activo_tipo: the index is not labelled a bond.
activo_tipo_sin_bono(simbolo, simbolo_yahoo) ==
    IF simbolo_yahoo = "ARGT" THEN "ETF"
    ELSE IF EndsWith(simbolo, ".ADR") THEN "CEDEAR"
    ELSE "ACCION"

activo_tipo(simbolo, simbolo_yahoo) ==
    IF simbolo_yahoo = "^MERV" THEN "BONO"
    ELSE IF simbolo_yahoo = "ARGT" THEN "ETF"
    ELSE IF EndsWith(simbolo, ".ADR") THEN "CEDEAR"
    ELSE "ACCION"

activo_mercado(simbolo_yahoo) ==
    IF EndsWith(simbolo_yahoo, ".BA") THEN "BYMA"
    ELSE IF ~HasDot(simbolo_yahoo) \/ StartsWith(simbolo_yahoo, "^") THEN "NYSE"
    ELSE "BYMA"

activo_moneda(mercado) == IF mercado # "BYMA" THEN "USD" ELSE "ARS"

activo_denominacion(simbolo, info) ==
    IF "longName" \in DOMAIN info /\ info.longName # "" THEN info.longName
    ELSE IF "shortName" \in DOMAIN info /\ info.shortName # "" THEN info.shortName
    ELSE simbolo

ActivoFinanciero(simbolo, tipo, denominacion, mercado, moneda, simbolo_yahoo) ==
    [kind |-> "ActivoFinanciero", simbolo |-> simbolo, tipo |-> tipo,
     denominacion |-> denominacion, panel |-> "LIDER", mercado |-> mercado,
     moneda |-> moneda, codigo_isin |-> None, codigo_cfi |-> None,
     simbolo_yahoo |-> simbolo_yahoo]

\* self._activos_cache[simbolo] = activo; return activo
activo_guardar(c, simbolo, activo) ==
    [kind |-> "return", value |-> activo, cache |-> SetItem(c, simbolo, activo)]

\* Mutant of obtener_activo: the cache is not looked up.
obtener_activo_sin_cache(simbolo, c, r) ==
    LET simbolo_yahoo == _get_yahoo_symbol(simbolo)
        info == activo_info(simbolo_yahoo, r)
    IN  IF info.kind # "dict" THEN info
        ELSE activo_guardar(c, simbolo,
                 ActivoFinanciero(simbolo,
                     activo_tipo(simbolo, simbolo_yahoo),
                     activo_denominacion(simbolo, info.items),
                     activo_mercado(simbolo_yahoo),
                     activo_moneda(activo_mercado(simbolo_yahoo)),
                     simbolo_yahoo))

obtener_activo(simbolo, c, r) ==
    IF simbolo \in DOMAIN c THEN Return(c[simbolo])
    ELSE LET simbolo_yahoo == _get_yahoo_symbol(simbolo)
             info == activo_info(simbolo_yahoo, r)
         IN  IF info.kind # "dict" THEN info
             ELSE activo_guardar(c, simbolo,
                      ActivoFinanciero(simbolo,
                          activo_tipo(simbolo, simbolo_yahoo),
                          activo_denominacion(simbolo, info.items),
                          activo_mercado(simbolo_yahoo),
                          activo_moneda(activo_mercado(simbolo_yahoo)),
                          simbolo_yahoo))

(***************************************************************************)
(* buscar_activos                                                          *)
(***************************************************************************)
\* The keys of SIMBOLOS_MAPPING in the order the dict holds them.
SIMBOLOS_ORDEN ==
    <<"GGAL", "PAMP", "YPF", "YPFD", "TXAR", "BYMA", "BBAR", "CEPU", "TRAN",
      "TGNO4", "TGSU2", "LOMA", "BMA", "SUPV", "CRES", "ALUA", "COME", "MIRG",
      "HARG", "VALO",
      "GGAL.ADR", "YPF.ADR", "BMA.ADR", "SUPV.ADR", "LOMA.ADR", "BBAR.ADR",
      "PAM.ADR", "TEO.ADR", "TGS.ADR",
      "ARGT",
      "MERVAL">>

\* yf.Tickers.search(query), and the list it answers with
Search(query) == [cap |-> "search", query |-> query]
List(items)   == [kind |-> "list", items |-> items]

\* tickers[:10]
MaxResultados == 10

\* ticker_info.get(key, default)
Get(ticker_info, key, default) ==
    IF key \in DOMAIN ticker_info THEN ticker_info[key] ELSE default

\* '.BA' in ticker_symbol
HasBA(ticker_symbol) ==
    \E i \in 1..(Len(ticker_symbol) - 2) : SubSeq(ticker_symbol, i, i + 2) = ".BA"

\* next((k for k, v in self.simbolos_mapping.items() if v == ticker_symbol),
\*      ticker_symbol)
simbolo_original(ticker_symbol) ==
    LET found == { i \in 1..Len(SIMBOLOS_ORDEN) :
                     SIMBOLOS_MAPPING[SIMBOLOS_ORDEN[i]] = ticker_symbol }
    IN  IF found = {} THEN ticker_symbol
        ELSE SIMBOLOS_ORDEN[CHOOSE i \in found : \A j \in found : i <= j]

\* The instrument made of one search result.
buscar_activo(ticker_info) ==
    LET ticker_symbol == Get(ticker_info, "symbol", "")
    IN  [kind |-> "ActivoFinanciero",
         simbolo |-> simbolo_original(ticker_symbol),
         tipo |-> "ACCION",
         denominacion |-> Get(ticker_info, "shortName", ticker_symbol),
         panel |-> "LIDER",
         mercado |-> IF HasBA(ticker_symbol) THEN "BYMA" ELSE "NYSE",
         moneda |-> IF HasBA(ticker_symbol) THEN "ARS" ELSE "USD",
         codigo_isin |-> None, codigo_cfi |-> None,
         simbolo_yahoo |-> ticker_symbol]

\* if '.BA' in ticker_symbol or ticker_symbol in self.simbolos_mapping.values()
buscar_argentino(ticker_info) ==
    LET ticker_symbol == Get(ticker_info, "symbol", "")
    IN  \/ HasBA(ticker_symbol)
        \/ \E k \in DOMAIN SIMBOLOS_MAPPING : SIMBOLOS_MAPPING[k] = ticker_symbol

RECURSIVE buscar_loop(_, _, _)
buscar_loop(tickers, i, resultados) ==
    IF i > Len(tickers) THEN resultados
    ELSE IF buscar_argentino(tickers[i])
    THEN buscar_loop(tickers, i + 1, Append(resultados, buscar_activo(tickers[i])))
    ELSE buscar_loop(tickers, i + 1, resultados)

\* Mutant of buscar_activos: the provider's exception is not caught.
buscar_activos_sin_try(query, r) ==
    IF Len(r) = 0 THEN Call(Search(query))
    ELSE IF r[1].kind = "raise" THEN Raise(r[1].error)
    ELSE LET n == IF Len(r[1].items) < MaxResultados
                  THEN Len(r[1].items) ELSE MaxResultados
         IN  Return(buscar_loop(SubSeq(r[1].items, 1, n), 1, <<>>))

buscar_activos(query, r) ==
    IF Len(r) = 0 THEN Call(Search(query))
    ELSE IF r[1].kind = "raise" THEN Return(<<>>)
    ELSE LET n == IF Len(r[1].items) < MaxResultados
                  THEN Len(r[1].items) ELSE MaxResultados
         IN  Return(buscar_loop(SubSeq(r[1].items, 1, n), 1, <<>>))

(***************************************************************************)
(* AnalizadorMercadoArgentino (src/utilidades_mcp.py)                      *)
(*                                                                         *)
(* A float64 of the analysis is either NaN or a number kept in units of    *)
(* 1/Precision, rounded down.  Closing prices are whole and positive, so   *)
(* the only division by zero the analysis can meet is 0/0, which is NaN.   *)
(* A pandas Series is the sequence of its values; a DataFrame of bars is   *)
(* DataFrame(rows) with one row per bar, indexed by its fecha.             *)
(***************************************************************************)
Precision == 1000

F(n)     == [kind |-> "float", n |-> n]
np_nan   == [kind |-> "nan"]
IsNaN(x) == x.kind = "nan"

FSub(a, b) == IF IsNaN(a) \/ IsNaN(b) THEN np_nan ELSE F(a.n - b.n)
FMul(a, b) == IF IsNaN(a) \/ IsNaN(b) THEN np_nan ELSE F((a.n * b.n) \div Precision)
FDiv(a, b) ==
    IF IsNaN(a) \/ IsNaN(b) \/ b.n = 0 THEN np_nan ELSE F((a.n * Precision) \div b.n)

\* x * 100
Times100(x) == IF IsNaN(x) THEN np_nan ELSE F(x.n * 100)

\* The whole part of the square root of n, sought between lo and hi.
RECURSIVE SqrtBetween(_, _, _)
SqrtBetween(n, lo, hi) ==
    IF lo >= hi THEN lo
    ELSE LET mid == (lo + hi + 1) \div 2
         IN  IF mid * mid <= n THEN SqrtBetween(n, mid, hi)
             ELSE SqrtBetween(n, lo, mid - 1)

isqrt(n) == SqrtBetween(n, 0, IF n < 46340 THEN n ELSE 46340)

\* np.sqrt(x)
Sqrt(x) == IF IsNaN(x) \/ x.n < 0 THEN np_nan ELSE F(isqrt(x.n * Precision))

\* base ** e for a whole exponent e, base in units of 1/Precision
RECURSIVE Pow(_, _)
Pow(base, e) ==
    IF e = 0 THEN Precision
    ELSE LET half == Pow(base, e \div 2)
             sq   == (half * half) \div Precision
         IN  IF e % 2 = 1 THEN (sq * base) \div Precision ELSE sq

\* (1 + x) ** e - 1
Compound(x, e) == IF IsNaN(x) THEN np_nan ELSE F(Pow(Precision + x.n, e) - Precision)

\* series.dropna()
dropna(xs) == SelectSeq(xs, LAMBDA x : ~IsNaN(x))

\* The sequence xs with its values worked out once.
Computed(xs) == SubSeq(xs, 1, Len(xs))

RECURSIVE Sum(_)
Sum(ns) == IF Len(ns) = 0 THEN 0 ELSE Head(ns) + Sum(Tail(ns))

\* The numbers of the values of xs that are not NaN.
Numbers(xs) == LET v == dropna(xs) IN Computed([i \in 1..Len(v) |-> v[i].n])

\* The whole-number mean of ns, and the sum of the products of the
\* deviations of ns and ms from their means.
Mean(ns) == Sum(ns) \div Len(ns)
SumDev(ns, ms) ==
    LET mean_ns == Mean(ns)
        mean_ms == Mean(ms)
    IN  Sum(Computed([i \in 1..Len(ns) |-> (ns[i] - mean_ns) * (ms[i] - mean_ms)]))

\* series.mean(): NaN for a series without a number
mean(xs) ==
    LET ns == Numbers(xs)
    IN  IF Len(ns) = 0 THEN np_nan ELSE F(Mean(ns))

\* series.std(): the sample deviation, NaN with fewer than two numbers
std(xs) ==
    LET ns == Numbers(xs)
    IN  IF Len(ns) < 2 THEN np_nan
        ELSE F(isqrt(SumDev(ns, ns) \div (Len(ns) - 1)))

\* series.var() and series.cov(other), in units of 1/Precision^2: NaN with
\* fewer than two numbers
cov(xs, ys) ==
    LET ns == Numbers(xs)
        ms == Numbers(ys)
    IN  IF Len(ns) < 2 THEN np_nan
        ELSE F(SumDev(ns, ms) \div (Len(ns) - 1))

var(xs) == cov(xs, xs)

\* series.min(): NaN for a series without a number
min(xs) ==
    LET ns == Numbers(xs)
    IN  IF Len(ns) = 0 THEN np_nan
        ELSE F(CHOOSE n \in {ns[i] : i \in 1..Len(ns)} :
                   \A i \in 1..Len(ns) : n <= ns[i])

\* prices.pct_change(): the first value and every change from or to a
\* missing price is NaN
pct_change(prices) ==
    Computed([i \in 1..Len(prices) |->
        IF i = 1 \/ isna(prices[i]) \/ isna(prices[i - 1]) THEN np_nan
        ELSE F(((prices[i] - prices[i - 1]) * Precision) \div prices[i - 1])])

\* df['cierre'] and df.index
cierre(df) == Computed([i \in 1..Len(df.rows) |-> df.rows[i].cierre])
index(df)  == Computed([i \in 1..Len(df.rows) |-> df.rows[i].fecha])

\* The request obtener_dataframe_historico makes: hasta is now when not
\* given, the interval and the ajustado flag are the defaults.
dataframe_solicitud(simbolo, desde, hasta) ==
    SolicitudHistorico(simbolo, desde,
                       IF hasta = None THEN datetime(NowTick) ELSE hasta,
                       "DIA_1", TRUE)

\* The DataFrame made of the bars of an OK answer.
dataframe_datos(datos) ==
    DataFrame(Computed([i \in 1..Len(datos) |->
        [fecha    |-> datos[i].timestamp,
         simbolo  |-> datos[i].simbolo,
         apertura |-> datos[i].apertura,
         maximo   |-> datos[i].maximo,
         minimo   |-> datos[i].minimo,
         cierre   |-> datos[i].cierre,
         volumen  |-> datos[i].volumen_nominal]]))

\* The DataFrame made of the client's answer: None when it is not OK or has
\* no bar.
dataframe_respuesta(respuesta) ==
    IF respuesta.kind = "call" THEN respuesta
    ELSE IF respuesta.value.estado # "OK" \/ Len(respuesta.value.datos) = 0
    THEN Return(None)
    ELSE Return(dataframe_datos(respuesta.value.datos))

obtener_dataframe_historico(simbolo, desde, hasta, r) ==
    dataframe_respuesta(
        obtener_historico(dataframe_solicitud(simbolo, desde, hasta), r))

\* The k-th retrieval of an analysis whose provider answers so far are r:
\* each retrieval makes one provider request.
Retrieve(simbolo, desde, hasta, r, k) ==
    obtener_dataframe_historico(simbolo, desde, hasta,
                                IF Len(r) >= k THEN <<r[k]>> ELSE <<>>)

\* The exponent 365/dias is taken down to a whole number.
calcular_rendimiento(df) ==
    IF df = None \/ Len(df.rows) = 0 THEN <<F(0), F(0), F(0)>>
    ELSE LET primer_precio == df.rows[1].cierre
             ultimo_precio == df.rows[Len(df.rows)].cierre
             rendimiento_total ==
                 F(((ultimo_precio - primer_precio) * 100 * Precision)
                       \div primer_precio)
             dias == (df.rows[Len(df.rows)].fecha.tick - df.rows[1].fecha.tick)
                         \div TicksPerDay
             rendimiento_anualizado ==
                 IF dias > 0
                 THEN Times100(Compound(F(rendimiento_total.n \div 100), 365 \div dias))
                 ELSE F(0)
             rendimientos_diarios ==
                 [i \in 1..Len(df.rows) |-> Times100(pct_change(cierre(df))[i])]
             volatilidad == std(rendimientos_diarios)
         IN  <<rendimiento_total, rendimiento_anualizado, volatilidad>>

(* calcular_beta *)
\* len(fechas_comunes) < 30
MinDatosBeta == 30

\* fechas.intersection(otras)
intersection(fechas, otras) ==
    SelectSeq(fechas, LAMBDA f : \E j \in 1..Len(otras) : otras[j] = f)

\* df.loc[fechas]
loc(df, fechas) ==
    DataFrame(SelectSeq(df.rows,
                        LAMBDA row : \E j \in 1..Len(fechas) : fechas[j] = row.fecha))

\* Mutant of beta_valor: no least number of common dates is asked for.
beta_valor_sin_minimo(df_activo, df_indice) ==
    IF df_activo = None \/ df_indice = None THEN None
    ELSE LET fechas_comunes == intersection(index(df_activo), index(df_indice))
             rendimientos_activo ==
                 dropna(pct_change(cierre(loc(df_activo, fechas_comunes))))
             rendimientos_indice ==
                 dropna(pct_change(cierre(loc(df_indice, fechas_comunes))))
             covarianza == cov(rendimientos_activo, rendimientos_indice)
             varianza == var(rendimientos_indice)
         IN  IF varianza = F(0) THEN None
             ELSE FDiv(covarianza, varianza)

\* The part of calcular_beta after both retrievals.
beta_valor(df_activo, df_indice) ==
    IF df_activo = None \/ df_indice = None THEN None
    ELSE LET fechas_comunes == intersection(index(df_activo), index(df_indice))
             rendimientos_activo ==
                 dropna(pct_change(cierre(loc(df_activo, fechas_comunes))))
             rendimientos_indice ==
                 dropna(pct_change(cierre(loc(df_indice, fechas_comunes))))
             covarianza == cov(rendimientos_activo, rendimientos_indice)
             varianza == var(rendimientos_indice)
         IN  IF Len(fechas_comunes) < MinDatosBeta THEN None
             ELSE IF varianza = F(0) THEN None
             ELSE FDiv(covarianza, varianza)

\* timedelta(days=90)
Days90 == 90

\* desde and hasta when not given: a year ago, and now
DesdeOr(desde) ==
    IF desde = None THEN datetime(NowTick - Days365 * TicksPerDay) ELSE desde

HastaOr(hasta) == IF hasta = None THEN datetime(NowTick) ELSE hasta

\* calcular_beta once both retrievals were made or asked for.
beta_retorno(df_activo, df_indice) ==
    IF df_activo.kind = "call" THEN df_activo
    ELSE IF df_indice.kind = "call" THEN df_indice
    ELSE Return(beta_valor(df_activo.value, df_indice.value))

calcular_beta(simbolo, indice, desde, hasta, r) ==
    beta_retorno(Retrieve(simbolo, DesdeOr(desde), HastaOr(hasta), r, 1),
                 Retrieve(indice, DesdeOr(desde), HastaOr(hasta), r, 2))

(* calcular_ratios *)
\* series.cumprod() and series.cummax()
RECURSIVE cumprod(_)
cumprod(xs) ==
    IF Len(xs) <= 1 THEN xs
    ELSE LET before == cumprod(SubSeq(xs, 1, Len(xs) - 1))
         IN  Append(before, FMul(before[Len(before)], xs[Len(xs)]))

RECURSIVE cummax(_)
cummax(xs) ==
    IF Len(xs) <= 1 THEN xs
    ELSE LET before == cummax(SubSeq(xs, 1, Len(xs) - 1))
             top == before[Len(before)]
         IN  Append(before, IF xs[Len(xs)].n > top.n THEN xs[Len(xs)] ELSE top)

\* tasa_libre_riesgo: float = 0.01
TasaLibreRiesgo == F(Precision \div 100)

\* np.sqrt(252)
Sqrt252 == Sqrt(F(252 * Precision))

\* The part of calcular_ratios after the retrieval brought a DataFrame.
ratios_valor(df, tasa_libre_riesgo) ==
    LET rendimientos_diarios == dropna(pct_change(cierre(df)))
        rendimiento_anualizado == Compound(mean(rendimientos_diarios), 252)
        volatilidad_anualizada == FMul(std(rendimientos_diarios), Sqrt252)
        sharpe == IF volatilidad_anualizada # F(0)
                  THEN FDiv(FSub(rendimiento_anualizado, tasa_libre_riesgo),
                            volatilidad_anualizada)
                  ELSE F(0)
        rendimientos_negativos == SelectSeq(rendimientos_diarios, LAMBDA x : x.n < 0)
        volatilidad_downside ==
            IF Len(rendimientos_negativos) # 0
            THEN FMul(std(rendimientos_negativos), Sqrt252)
            ELSE volatilidad_anualizada
        sortino == IF volatilidad_downside # F(0)
                   THEN FDiv(FSub(rendimiento_anualizado, tasa_libre_riesgo),
                             volatilidad_downside)
                   ELSE F(0)
        acumulado == cumprod([i \in 1..Len(rendimientos_diarios) |->
                                 F(Precision + rendimientos_diarios[i].n)])
        maximo_valor == cummax(acumulado)
        drawdown == [i \in 1..Len(acumulado) |->
                        FDiv(FSub(acumulado[i], maximo_valor[i]), maximo_valor[i])]
        max_drawdown == Times100(min(drawdown))
    IN  [rendimiento_anualizado |-> Times100(rendimiento_anualizado),
         volatilidad_anualizada |-> Times100(volatilidad_anualizada),
         ratio_sharpe           |-> sharpe,
         ratio_sortino          |-> sortino,
         maximo_drawdown        |-> max_drawdown]

\* calcular_ratios once the retrieval was made or asked for.
ratios_retorno(df, tasa_libre_riesgo) ==
    IF df.kind = "call" THEN df
    ELSE IF df.value = None THEN Return(<<>>)
    ELSE Return(ratios_valor(df.value, tasa_libre_riesgo))

calcular_ratios(simbolo, tasa_libre_riesgo, desde, hasta, r) ==
    ratios_retorno(Retrieve(simbolo, DesdeOr(desde), HastaOr(hasta), r, 1),
                   tasa_libre_riesgo)

(* calcular_matriz_correlacion *)
\* A DataFrame of closes: its index (dates), its columns (symbols, in the
\* order they were added) and, for each column, its values along the index.
Tabla(fechas, columnas, valores) ==
    [kind |-> "Tabla", index |-> fechas, columns |-> columnas, data |-> valores]

\* pd.DataFrame()
TablaVacia == Tabla(<<>>, <<>>, <<>>)

\* The closes of df along the dates fechas, NaN on a date df does not have.
reindex(df, fechas) ==
    Computed([i \in 1..Len(fechas) |->
        IF \E j \in 1..Len(df.rows) : df.rows[j].fecha = fechas[i]
        THEN df.rows[CHOOSE j \in 1..Len(df.rows) : df.rows[j].fecha = fechas[i]].cierre
        ELSE NaN])

\* datos_combinados[simbolo] = df['cierre']: a table without rows takes the
\* index of the series, any other aligns the series to its own index; a
\* column that is there already is replaced.
SetColumn(datos_combinados, simbolo, df) ==
    LET fechas == IF Len(datos_combinados.index) = 0 THEN index(df)
                  ELSE datos_combinados.index
        columna == reindex(df, fechas)
        columnas == datos_combinados.columns
    IN  IF \E k \in 1..Len(columnas) : columnas[k] = simbolo
        THEN Tabla(fechas, columnas,
                   [k \in 1..Len(columnas) |->
                       IF columnas[k] = simbolo THEN columna
                       ELSE datos_combinados.data[k]])
        ELSE Tabla(fechas, Append(columnas, simbolo),
                   Append(datos_combinados.data, columna))

\* Mutant of matriz_agregar: a symbol without data empties the table.
matriz_agregar_vacia(datos_combinados, simbolo, df) ==
    IF df # None THEN SetColumn(datos_combinados, simbolo, df)
    ELSE TablaVacia

\* The body of the loop over simbolos.
matriz_agregar(datos_combinados, simbolo, df) ==
    IF df # None THEN SetColumn(datos_combinados, simbolo, df)
    ELSE datos_combinados

RECURSIVE matriz_loop(_, _, _, _)
matriz_loop(simbolos, dfs, i, datos_combinados) ==
    IF i > Len(simbolos) THEN datos_combinados
    ELSE matriz_loop(simbolos, dfs, i + 1,
                     matriz_agregar(datos_combinados, simbolos[i], dfs[i]))

\* datos_combinados.empty
TablaEmpty(tabla) == Len(tabla.index) = 0 \/ Len(tabla.columns) = 0

\* The prices of a column with each missing one replaced by the last one
\* before it (fill_method='pad').
RECURSIVE ffill(_)
ffill(prices) ==
    IF Len(prices) <= 1 THEN prices
    ELSE LET before == ffill(SubSeq(prices, 1, Len(prices) - 1))
             last == prices[Len(prices)]
         IN  Append(before, IF isna(last) THEN before[Len(before)] ELSE last)

\* datos_combinados.pct_change(): pandas up to 2.x pads the missing prices
\* first, pandas 3 does not.
tabla_pct_change(tabla, pad) ==
    Computed([k \in 1..Len(tabla.columns) |->
        pct_change(IF pad THEN ffill(tabla.data[k]) ELSE tabla.data[k])])

\* .dropna(): the rows without a NaN, as positions of the index.
tabla_dropna(cambios, filas) ==
    SelectSeq([i \in 1..filas |-> i],
              LAMBDA i : \A k \in 1..Len(cambios) : ~IsNaN(cambios[k][i]))

\* The correlation of two columns of numbers: NaN with fewer than two rows
\* and when either column does not vary.
corr(ns, ms) ==
    IF Len(ns) < 2 THEN np_nan
    ELSE LET vx == SumDev(ns, ns)
             vy == SumDev(ms, ms)
         IN  IF vx = 0 \/ vy = 0 THEN np_nan
             ELSE F((SumDev(ns, ms) * Precision) \div isqrt(vx * vy))

\* rendimientos.corr(): the matrix over the columns.
Matriz(columnas, valores) ==
    [kind |-> "Matriz", columns |-> columnas, values |-> valores]

matriz_valor(tabla, pad) ==
    LET cambios == tabla_pct_change(tabla, pad)
        filas == tabla_dropna(cambios, Len(tabla.index))
        rendimientos ==
            Computed([k \in 1..Len(cambios) |->
                Computed([i \in 1..Len(filas) |-> cambios[k][filas[i]].n])])
        n == Len(tabla.columns)
    IN  Matriz(tabla.columns,
               [a \in 1..n |-> [b \in 1..n |-> corr(rendimientos[a], rendimientos[b])]])

\* calcular_matriz_correlacion once its retrievals (dfs, the i-th for the
\* i-th symbol) were made or asked for.
matriz_retorno(simbolos, dfs, pendiente, pad) ==
    IF pendiente <= Len(simbolos) THEN dfs[pendiente]
    ELSE IF TablaEmpty(matriz_loop(simbolos, [i \in 1..Len(simbolos) |-> dfs[i].value],
                                   1, TablaVacia))
    THEN Return(None)
    ELSE Return(matriz_valor(
             matriz_loop(simbolos, [i \in 1..Len(simbolos) |-> dfs[i].value],
                         1, TablaVacia),
             pad))

\* The i-th symbol is retrieved with the i-th provider request.
calcular_matriz_correlacion(simbolos, desde, hasta, pad, r) ==
    matriz_retorno(simbolos,
                   [i \in 1..Len(simbolos) |-> Retrieve(simbolos[i], desde, hasta, r, i)],
                   Len(r) + 1, pad)

(* comparar_activos *)
\* The provider answers of r that self.cliente.obtener_activo(simbolo) uses
\* up, from n on (one more than r has when it is still waiting).
RECURSIVE ActivoConsumed(_, _, _, _)
ActivoConsumed(simbolo, c, r, n) ==
    IF n > Len(r) THEN n
    ELSE IF obtener_activo(simbolo, c, SubSeq(r, 1, n)).kind # "call" THEN n
    ELSE ActivoConsumed(simbolo, c, r, n + 1)

\* series.max() of whole prices
max(prices) ==
    CHOOSE p \in {prices[i] : i \in 1..Len(prices)} :
        \A i \in 1..Len(prices) : p >= prices[i]

\* resultados[simbolo] for a symbol whose DataFrame is df, whose returns
\* are rendimiento and whose instrument is activo (None when it could not
\* be obtained).
comparar_indicadores(df, rendimiento, precios, volumen, activo) ==
    [rendimiento_total      |-> rendimiento[1],
     rendimiento_anualizado |-> rendimiento[2],
     volatilidad            |-> rendimiento[3],
     precio_maximo          |-> max(precios),
     precio_minimo          |-> -max([i \in 1..Len(precios) |-> -precios[i]]),
     precio_actual          |-> precios[Len(precios)],
     volumen_promedio       |-> F((Sum(volumen) * Precision) \div Len(volumen)),
     cantidad_datos         |-> Len(df.rows)]
    @@ IF activo # None
       THEN [denominacion |-> activo.denominacion,
             tipo         |-> activo.tipo,
             mercado      |-> activo.mercado,
             moneda       |-> activo.moneda]
       ELSE <<>>

comparar_entry(df, activo) ==
    comparar_indicadores(df, calcular_rendimiento(df), cierre(df),
                         Computed([i \in 1..Len(df.rows) |-> df.rows[i].volumen]),
                         activo)

RECURSIVE comparar_loop(_, _, _, _, _, _, _)

\* The end of the loop body: activo is what obtener_activo gave for the
\* answers info that it used up (n of them), or its next request.
comparar_guardar(simbolos, i, desde, hasta, c, info, resultados, df, n, activo) ==
    IF n > Len(info) THEN activo
    ELSE comparar_loop(simbolos, i + 1, desde, hasta,
             IF "cache" \in DOMAIN activo THEN activo.cache ELSE c,
             SubSeq(info, n + 1, Len(info)),
             SetItem(resultados, simbolos[i], comparar_entry(df, activo.value)))

\* The loop body for a symbol with data: self.cliente.obtener_activo uses
\* up n of the answers info.
comparar_activo(simbolos, i, desde, hasta, c, info, resultados, df, n) ==
    comparar_guardar(simbolos, i, desde, hasta, c, info, resultados, df, n,
        obtener_activo(simbolos[i], c,
                       SubSeq(info, 1, IF n > Len(info) THEN Len(info) ELSE n)))

\* Mutant of comparar_paso: the comparison ends at the first symbol without
\* data.
comparar_paso_corta(simbolos, i, desde, hasta, c, r, resultados, df) ==
    IF df.kind = "call" THEN df
    ELSE IF df.value = None
    THEN [kind |-> "return", value |-> resultados, cache |-> c, rest |-> Tail(r)]
    ELSE comparar_activo(simbolos, i, desde, hasta, c, Tail(r), resultados, df.value,
                         ActivoConsumed(simbolos[i], c, Tail(r), 0))

\* The loop body for the i-th symbol, df being its retrieval.
comparar_paso(simbolos, i, desde, hasta, c, r, resultados, df) ==
    IF df.kind = "call" THEN df
    ELSE IF df.value = None
    THEN comparar_loop(simbolos, i + 1, desde, hasta, c, Tail(r), resultados)
    ELSE comparar_activo(simbolos, i, desde, hasta, c, Tail(r), resultados, df.value,
                         ActivoConsumed(simbolos[i], c, Tail(r), 0))

\* The loop over simbolos from the i-th on: the next provider request, or
\* the results together with the client's cache and the answers left over.
comparar_loop(simbolos, i, desde, hasta, c, r, resultados) ==
    IF i > Len(simbolos)
    THEN [kind |-> "return", value |-> resultados, cache |-> c, rest |-> r]
    ELSE comparar_paso(simbolos, i, desde, hasta, c, r, resultados,
             obtener_dataframe_historico(simbolos[i], desde, hasta,
                 IF Len(r) > 0 THEN <<r[1]>> ELSE <<>>))

comparar_activos(simbolos, desde, hasta, c, r) ==
    comparar_loop(simbolos, 1, desde, HastaOr(hasta), c, r, <<>>)

(* generar_reporte_mercado *)
lideres == <<"GGAL", "YPFD", "PAMP", "TXAR", "BYMA", "BBAR", "ALUA">>
indices == <<"MERVAL">>

\* datos_indices[indice] for an index whose DataFrame is df and whose
\* returns are rendimiento.
indice_entry(df, rendimiento) ==
    [rendimiento_total      |-> rendimiento[1],
     rendimiento_anualizado |-> rendimiento[2],
     volatilidad            |-> rendimiento[3],
     ultimo_valor           |-> cierre(df)[Len(df.rows)]]

RECURSIVE reporte_indices(_, _, _, _)

\* The body of the loop over indices for the i-th, df being its retrieval.
reporte_indice(i, desde, r, datos_indices, df) ==
    IF df.kind = "call" THEN df
    ELSE IF df.value = None
    THEN reporte_indices(i + 1, desde, Tail(r), datos_indices)
    ELSE reporte_indices(i + 1, desde, Tail(r),
             SetItem(datos_indices, indices[i],
                     indice_entry(df.value, calcular_rendimiento(df.value))))

\* The loop over indices from the i-th on: the next provider request, or
\* datos_indices and the answers left over.
reporte_indices(i, desde, r, datos_indices) ==
    IF i > Len(indices)
    THEN [kind |-> "return", value |-> datos_indices, rest |-> r]
    ELSE reporte_indice(i, desde, r, datos_indices,
             obtener_dataframe_historico(indices[i], desde, None,
                 IF Len(r) > 0 THEN <<r[1]>> ELSE <<>>))

RECURSIVE reporte_betas(_, _, _, _)

\* The body of the loop over lideres for the i-th, beta being its
\* calcular_beta.
reporte_beta(i, desde, r, betas, beta) ==
    IF beta.kind = "call" THEN beta
    ELSE reporte_betas(i + 1, desde, SubSeq(r, 3, Len(r)),
             IF beta.value # None THEN SetItem(betas, lideres[i], beta.value)
             ELSE betas)

\* The loop over lideres from the i-th on: the next provider request, or
\* betas.  Each calcular_beta makes two requests.
reporte_betas(i, desde, r, betas) ==
    IF i > Len(lideres) THEN Return(betas)
    ELSE reporte_beta(i, desde, r, betas,
             calcular_beta(lideres[i], "MERVAL", desde, None,
                           SubSeq(r, 1, IF Len(r) < 2 THEN Len(r) ELSE 2)))

\* The report once the matrix and the betas were computed or asked for.
reporte_armar(desde, datos_indices, datos_lideres, pendientes, matriz_correlacion, betas) ==
    IF pendientes THEN matriz_correlacion
    ELSE IF betas.kind = "call" THEN betas
    ELSE [kind  |-> "return",
          cache |-> datos_lideres.cache,
          value |-> [fecha_reporte |-> datetime(NowTick),
                     periodo |-> [desde |-> desde, hasta |-> datetime(NowTick)],
                     indices |-> datos_indices,
                     lideres |-> datos_lideres.value,
                     betas   |-> betas.value,
                     matriz_correlacion |-> matriz_correlacion.value]]

\* The report from the matrix on: r holds the answers left over by the
\* comparison, the first for the matrix and the others for the betas.
reporte_matriz(desde, pad, datos_indices, datos_lideres, todos_simbolos, r) ==
    reporte_armar(desde, datos_indices, datos_lideres,
        Len(r) < Len(todos_simbolos),
        calcular_matriz_correlacion(todos_simbolos, desde, None, pad,
            SubSeq(r, 1, IF Len(r) < Len(todos_simbolos) THEN Len(r)
                         ELSE Len(todos_simbolos))),
        reporte_betas(1, desde, SubSeq(r, Len(todos_simbolos) + 1, Len(r)), <<>>))

\* The report from the comparison of the leaders on.
reporte_lideres(desde, pad, datos_indices, datos_lideres) ==
    IF datos_lideres.kind = "call" THEN datos_lideres
    ELSE reporte_matriz(desde, pad, datos_indices, datos_lideres,
                        lideres \o indices, datos_lideres.rest)

\* The report from the loop over the indices on.
reporte_desde(desde, pad, c, datos_indices) ==
    IF datos_indices.kind = "call" THEN datos_indices
    ELSE reporte_lideres(desde, pad, datos_indices.value,
                         comparar_activos(lideres, desde, None, c, datos_indices.rest))

\* The period of the report starts Days90 days ago when desde is not given.
reporte_periodo(desde, pad, c, r) ==
    reporte_desde(desde, pad, c, reporte_indices(1, desde, r, <<>>))

generar_reporte_mercado(desde, pad, c, r) ==
    reporte_periodo(IF desde = None THEN datetime(NowTick - Days90 * TicksPerDay)
                    ELSE desde,
                    pad, c, r)

(***************************************************************************)
(* server.py: the HTTP endpoints over one shared client                    *)
(***************************************************************************)
\* class HistoricoRequest(BaseModel): the body of POST /historico
HistoricoRequest(simbolo, desde, hasta, intervalo) ==
    [simbolo |-> simbolo, desde |-> desde, hasta |-> hasta, intervalo |-> intervalo]

\* datetime.isoformat(): the text of a datetime
isoformat(d) == [kind |-> "str", isoformat |-> d.tick]

Cotizacion_to_dict(cotizacion) ==
    [simbolo             |-> cotizacion.simbolo,
     timestamp           |-> isoformat(cotizacion.timestamp),
     apertura            |-> cotizacion.apertura,
     maximo              |-> cotizacion.maximo,
     minimo              |-> cotizacion.minimo,
     cierre              |-> cotizacion.cierre,
     volumenNominal      |-> cotizacion.volumen_nominal,
     volumenMonto        |-> cotizacion.volumen_monto,
     cantidadOperaciones |-> cotizacion.cantidad_operaciones,
     ajustado            |-> cotizacion.ajustado]

MetadataHistorico_to_dict(metadata) ==
    [simbolo   |-> metadata.simbolo,
     desde     |-> isoformat(metadata.desde),
     hasta     |-> isoformat(metadata.hasta),
     intervalo |-> metadata.intervalo,
     registros |-> metadata.registros,
     ajustado  |-> metadata.ajustado]

RespuestaHistorico_to_dict(respuesta) ==
    IF respuesta.estado = "OK"
    THEN [estado   |-> respuesta.estado,
          datos    |-> [i \in 1..Len(respuesta.datos) |->
                           Cotizacion_to_dict(respuesta.datos[i])],
          metadata |-> IF respuesta.metadata # None
                       THEN MetadataHistorico_to_dict(respuesta.metadata)
                       ELSE None]
    ELSE [estado  |-> respuesta.estado,
          mensaje |-> respuesta.mensaje,
          codigo  |-> respuesta.codigo_error]

ActivoFinanciero_to_dict(activo) ==
    [simbolo      |-> activo.simbolo,
     tipo         |-> activo.tipo,
     denominacion |-> activo.denominacion,
     panel        |-> activo.panel,
     mercado      |-> activo.mercado,
     moneda       |-> activo.moneda,
     codigoISIN   |-> activo.codigo_isin,
     codigoCFI    |-> activo.codigo_cfi,
     simboloYahoo |-> activo.simbolo_yahoo]

\* return respuesta.to_dict()
historico_body(respuesta) ==
    IF respuesta.kind = "call" THEN respuesta
    ELSE Return(RespuestaHistorico_to_dict(respuesta.value))

\* POST /historico: the body req itself is handed to the client.
post_historico(req, r) == historico_body(obtener_historico(req, r))

\* return activo.to_dict() if activo else {"error": "Activo no encontrado"}
activo_body(activo) ==
    IF activo.kind = "call" THEN activo
    ELSE [activo EXCEPT !.value = IF activo.value # None
                                  THEN ActivoFinanciero_to_dict(activo.value)
                                  ELSE [error |-> "Activo no encontrado"]]

\* GET /activo
get_activo(simbolo, c, r) == activo_body(obtener_activo(simbolo, c, r))

\* return cotizacion.to_dict() if cotizacion else {"error": "Cotizacion no disponible"}
ultima_body(cotizacion) ==
    IF cotizacion.kind = "call" THEN cotizacion
    ELSE IF cotizacion.value # None
    THEN Return(Cotizacion_to_dict(cotizacion.value))
    ELSE Return([error |-> "Cotizacion no disponible"])

\* GET /ultima
get_ultima(simbolo, r) == ultima_body(obtener_ultima_cotizacion(simbolo, r))

(***************************************************************************)
(* Inputs of the model                                                     *)
(***************************************************************************)
\* The row at position i of a frame, with the cells named in missing absent.
Cell(i, name, base, missing) == IF name \in missing THEN NaN ELSE base + i

Row(i, missing) ==
    [index  |-> Timestamp(i * TicksPerDay + 1),
     Open   |-> Cell(i, "Open", 100, missing),
     High   |-> Cell(i, "High", 120, missing),
     Low    |-> Cell(i, "Low", 80, missing),
     Close  |-> Cell(i, "Close", 110, missing),
     Volume |-> Cell(i, "Volume", 5000, missing)]

\* The same row in a frame that has no Volume column.
WithoutVolume(row) == [f \in DOMAIN row \ {"Volume"} |-> row[f]]

\* Frames of at most n rows, each row missing one of the cell sets in kinds.
Frames(n, kinds) ==
    UNION { { [i \in 1..k |-> Row(i, m[i])] : m \in [1..k -> kinds] } : k \in 0..n }

\* Frames the provider answers a client request with: rows are complete or
\* lack their close.
ProviderFrames(n) == { DataFrame(rows) : rows \in Frames(n, {{}, {"Close"}}) }

\* Domain symbols the operations are called with.
ClientSymbols == {"GGAL", "MERVAL", "GGAL.ADR"}
CachedSymbols == {"GGAL", "MERVAL"}
BatchSymbols  == {"GGAL", "MERVAL"}

\* The (desde, hasta) bounds of a request.
Rangos == { <<None, None>>, <<datetime(4), datetime(9)>> }

Solicitudes ==
    { SolicitudHistorico(simbolo, rango[1], rango[2], "DIA_1", ajustado) :
        simbolo \in ClientSymbols, rango \in Rangos, ajustado \in BOOLEAN }

SymbolLists == UNION { [1..k -> BatchSymbols] : k \in 0..MaxBatch }

ErrorTexts == {"HTTP Error 404"}

InfoAnswers ==
    { None,
      Dict(<<>>),
      Dict([longName |-> "Grupo Financiero Galicia", shortName |-> "Galicia"]) }

\* Search results: relevant or not, with and without a name.
TickerInfos ==
    { [symbol |-> "GGAL.BA", shortName |-> "Grupo Financiero Galicia"],
      [symbol |-> "YPFD.BA"],
      [symbol |-> "AAPL", shortName |-> "Apple Inc."],
      [symbol |-> "GGAL", shortName |-> "Grupo Financiero Galicia ADR"] }

\* Lists of at most MaxHits results, and one list with a result too many.
SearchResults ==
    UNION { [1..k -> TickerInfos] : k \in 0..MaxHits }
    \cup { [i \in 1..(MaxResultados + 1) |-> [symbol |-> "YPFD.BA"]] }

Queries == {"galicia"}

(***************************************************************************)
(* The client's operations and the provider's answers                      *)
(***************************************************************************)
Running == [kind |-> "running"]

Init ==
    /\ cache = <<>>
    /\ pc = "idle"
    /\ op = [name |-> "none"]
    /\ calls = <<>>
    /\ rs = <<>>
    /\ ret = Running

\* The handler of operation o, run on the provider's answers r.
Run(o, c, r) ==
    CASE o.name = "obtener_historico" -> obtener_historico(o.solicitud, r)
      [] o.name = "obtener_ultima_cotizacion" -> obtener_ultima_cotizacion(o.simbolo, r)
      [] o.name = "obtener_cotizaciones_multiples" ->
             obtener_cotizaciones_multiples(o.simbolos, r)
      [] o.name = "obtener_activo" -> obtener_activo(o.simbolo, c, r)
      [] o.name = "buscar_activos" -> buscar_activos(o.query, r)
      [] o.name = "generar_reporte_mercado" ->
             generar_reporte_mercado(o.desde, o.pad, c, r)
      [] o.name = "calcular_matriz_correlacion" ->
             calcular_matriz_correlacion(o.simbolos, o.desde, o.hasta, o.pad, r)
      [] o.name = "calcular_rendimiento" -> Return(calcular_rendimiento(o.df))
      [] o.name = "calcular_beta" ->
             calcular_beta(o.simbolo, o.indice, o.desde, o.hasta, r)
      [] o.name = "calcular_ratios" ->
             calcular_ratios(o.simbolo, o.tasa_libre_riesgo, o.desde, o.hasta, r)
      [] o.name = "post_historico" -> post_historico(o.req, r)
      [] o.name = "get_activo" -> get_activo(o.simbolo, c, r)
      [] o.name = "get_ultima" -> get_ultima(o.simbolo, r)

\* The state after a handler ran on answers and gave out: it waits for the
\* provider to answer its request, or it is over.
Outcome(issued, answers, out) ==
    /\ rs' = answers
    /\ IF out.kind = "call"
       THEN /\ pc' = "waiting"
            /\ calls' = Append(issued, out.req)
            /\ ret' = Running
            /\ cache' = cache
       ELSE /\ pc' = "idle"
            /\ calls' = issued
            /\ ret' = IF out.kind = "return" THEN Return(out.value) ELSE out
            /\ cache' = IF "cache" \in DOMAIN out THEN out.cache ELSE cache

\* Operation o runs until its next provider request or until it finishes.
Step(o, issued, answers) == Outcome(issued, answers, Run(o, cache, answers))

CallHistorico ==
    /\ pc = "idle"
    /\ \E solicitud \in Solicitudes :
          LET o == [name |-> "obtener_historico", solicitud |-> solicitud]
          IN  op' = o /\ Step(o, <<>>, <<>>)

CallUltimaCotizacion ==
    /\ pc = "idle"
    /\ \E simbolo \in ClientSymbols :
          LET o == [name |-> "obtener_ultima_cotizacion", simbolo |-> simbolo]
          IN  op' = o /\ Step(o, <<>>, <<>>)

CallCotizacionesMultiples ==
    /\ pc = "idle"
    /\ \E simbolos \in SymbolLists :
          LET o == [name |-> "obtener_cotizaciones_multiples", simbolos |-> simbolos]
          IN  op' = o /\ Step(o, <<>>, <<>>)

CallActivo ==
    /\ pc = "idle"
    /\ \E simbolo \in CachedSymbols :
          LET o == [name |-> "obtener_activo", simbolo |-> simbolo]
          IN  op' = o /\ Step(o, <<>>, <<>>)

CallBuscarActivos ==
    /\ pc = "idle"
    /\ \E query \in Queries :
          LET o == [name |-> "buscar_activos", query |-> query]
          IN  op' = o /\ Step(o, <<>>, <<>>)

Pending == calls[Len(calls)]

Answer(a) == op' = op /\ Step(op, calls, Append(rs, a))

\* In a batch the provider answers with no row or with one complete row.
BatchFrames  == { DataFrame(rows) : rows \in Frames(1, {{}}) }
ClientFrames == ProviderFrames(MaxRows)

FramesFor(o) ==
    IF o.name = "obtener_cotizaciones_multiples" THEN BatchFrames ELSE ClientFrames

ProviderRaises ==
    /\ pc = "waiting"
    /\ \E e \in ErrorTexts : Answer(Raised(e))

ProviderReturnsFrame ==
    /\ pc = "waiting"
    /\ Pending.cap = "history"
    /\ \E df \in FramesFor(op) : Answer(df)

ProviderReturnsInfo ==
    /\ pc = "waiting"
    /\ Pending.cap = "info"
    /\ \E info \in InfoAnswers : Answer(info)

ProviderReturnsResults ==
    /\ pc = "waiting"
    /\ Pending.cap = "search"
    /\ \E tickers \in SearchResults : Answer(List(tickers))

Next ==
    \/ CallHistorico
    \/ CallUltimaCotizacion
    \/ CallCotizacionesMultiples
    \/ CallActivo
    \/ CallBuscarActivos
    \/ ProviderRaises
    \/ ProviderReturnsFrame
    \/ ProviderReturnsInfo
    \/ ProviderReturnsResults

Spec == Init /\ [][Next]_vars

(***************************************************************************)
(* The normalizer on its own: Init draws a frame, Normalize converts it.   *)
(***************************************************************************)
Columns == {"Open", "High", "Low", "Close", "Volume"}

\* The frame of k rows whose i-th row misses the cells m[i], with or without
\* a Volume column.
NormFrame(k, m, volume) ==
    [i \in 1..k |-> IF volume THEN Row(i, m[i]) ELSE WithoutVolume(Row(i, m[i]))]

\* Every frame of at most MaxNormRows rows with any cells missing, with and
\* without a Volume column.
InitNorm ==
    /\ cache = <<>>
    /\ pc = "ready"
    /\ \E k \in 0..MaxNormRows, volume \in BOOLEAN :
          \E m \in [1..k -> SUBSET Columns] :
              op = [name |-> "_convert_yf_history_to_cotizaciones",
                    df |-> NormFrame(k, m, volume), simbolo |-> "GGAL"]
    /\ calls = <<>>
    /\ rs = <<>>
    /\ ret = Running

Normalize ==
    /\ pc = "ready"
    /\ op.name = "_convert_yf_history_to_cotizaciones"
    /\ ret' = Return(_convert_yf_history_to_cotizaciones(op.df, op.simbolo))
    /\ pc' = "idle"
    /\ UNCHANGED <<cache, op, calls, rs>>

NextNorm == Normalize

SpecNorm == InitNorm /\ [][NextNorm]_vars

(***************************************************************************)
(* The resolver on its own: Init draws a symbol, Resolve resolves it.      *)
(***************************************************************************)
ResolveInputs ==
    DOMAIN SIMBOLOS_MAPPING \cup
    { base \o suffix :
        base \in {"UNKNOWN123", "GGAL", "YPF", "ALUA", "AAPL", "^MERV", "X", ""},
        suffix \in {"", ".BA", ".ADR", ".BA.ADR", ".ADR.BA", ".ba", ".adr",
                    "BA", "ADR", ".B", ".BAS"} }

InitResolve ==
    /\ cache = <<>>
    /\ pc = "ready"
    /\ op \in { [name |-> "_get_yahoo_symbol", simbolo |-> s] : s \in ResolveInputs }
    /\ calls = <<>>
    /\ rs = <<>>
    /\ ret = Running

Resolve ==
    /\ pc = "ready"
    /\ op.name = "_get_yahoo_symbol"
    /\ ret' = Return(_get_yahoo_symbol(op.simbolo))
    /\ pc' = "idle"
    /\ UNCHANGED <<cache, op, calls, rs>>

NextResolve == Resolve

SpecResolve == InitResolve /\ [][NextResolve]_vars

(***************************************************************************)
(* Properties                                                              *)
(***************************************************************************)
Finished(name) == pc = "idle" /\ op.name = name

HasRows(a) == a.kind = "DataFrame" /\ Len(a.rows) > 0
NoRows(a)  == a.kind = "DataFrame" /\ Len(a.rows) = 0

\* A row with its open, high, low and close all present.
Complete(row) ==
    row.Open # NaN /\ row.High # NaN /\ row.Low # NaN /\ row.Close # NaN

Survivors(rows) == SelectSeq(rows, Complete)

\* bar is the bar of row, for the domain symbol simbolo.
BarOf(simbolo, row, bar) ==
    /\ bar.kind = "Cotizacion"
    /\ bar.simbolo = simbolo
    /\ bar.timestamp = datetime(row.index.tick)
    /\ bar.apertura = row.Open
    /\ bar.maximo = row.High
    /\ bar.minimo = row.Low
    /\ bar.cierre = row.Close

\* The lookback windows of obtener_ultima_cotizacion, narrowest first.
Windows == <<"1d", "5d", "1mo">>

\* C1: obtener_ultima_cotizacion requests the windows 1d, 5d, 1mo in that
\* order, and requests a wider window only after every narrower one came back
\* without rows; when the 1d window is empty and the 5d window has one
\* complete row, it returns the bar of that row and never requests 1mo.
UltimaWindowsInOrder ==
    op.name = "obtener_ultima_cotizacion" =>
        /\ Len(calls) <= Len(Windows)
        /\ \A i \in 1..Len(calls) :
              calls[i].cap = "history" /\ calls[i].period = Windows[i]
        /\ \A i \in 1..(Len(calls) - 1) : NoRows(rs[i])
        /\ ( /\ pc = "idle"
             /\ Len(rs) >= 2
             /\ NoRows(rs[1])
             /\ HasRows(rs[2])
             /\ Len(rs[2].rows) = 1
             /\ Complete(rs[2].rows[1]) )
           => /\ Len(calls) = 2
              /\ ret.kind = "return"
              /\ BarOf(op.simbolo, rs[2].rows[1], ret.value)

\* Witness of C1: the 1d window was empty, the 5d window had one complete
\* row, and a bar was returned after two requests.
UltimaSecondWindowBar ==
    /\ Finished("obtener_ultima_cotizacion")
    /\ Len(calls) = 2
    /\ NoRows(rs[1])
    /\ HasRows(rs[2])
    /\ Len(rs[2].rows) = 1
    /\ ret.value.kind = "Cotizacion"

\* C2: when a window comes back with rows that the normalizer all drops,
\* obtener_ultima_cotizacion still tries the next wider window (if there is
\* one) before it finishes.
UltimaWidensPastDroppedRows ==
    Finished("obtener_ultima_cotizacion") =>
        \A i \in 1..Len(rs) :
            ( /\ i < Len(Windows)
              /\ HasRows(rs[i])
              /\ Len(Survivors(rs[i].rows)) = 0 )
            => Len(calls) > i

\* The answers that one obtener_ultima_cotizacion call takes from the head of
\* a: up to the first exception or frame with rows, three at most.
SegLen(a) ==
    LET stops == { n \in 1..Len(a) :
                     n = Len(Windows) \/ a[n].kind = "raise" \/ HasRows(a[n]) }
    IN  IF stops = {} THEN Len(a)
        ELSE CHOOSE n \in stops : \A m \in stops : n <= m

\* The answers given to the k-th call of a batch whose answers are a.
RECURSIVE SegmentAt(_, _)
SegmentAt(a, k) ==
    IF k = 1 THEN SubSeq(a, 1, SegLen(a))
    ELSE SegmentAt(SubSeq(a, SegLen(a) + 1, Len(a)), k - 1)

\* C3: obtener_cotizaciones_multiples returns (never raises) a mapping whose
\* keys are exactly the input symbols; each symbol's entry is what
\* obtener_ultima_cotizacion returns for that symbol on the answers the
\* provider gave for it (for its last occurrence in the list), whatever
\* happened to the other symbols; with A failing and B having one complete
\* row the result is {A: None, B: that bar}.
MultiplesIsolated ==
    Finished("obtener_cotizaciones_multiples") =>
        /\ ret.kind = "return"
        /\ DOMAIN ret.value = { op.simbolos[i] : i \in 1..Len(op.simbolos) }
        /\ \A i \in 1..Len(op.simbolos) :
              (\A j \in (i + 1)..Len(op.simbolos) : op.simbolos[j] # op.simbolos[i])
              => ret.value[op.simbolos[i]] =
                    obtener_ultima_cotizacion(op.simbolos[i], SegmentAt(rs, i)).value
        /\ ( /\ Len(op.simbolos) = 2
             /\ op.simbolos[1] # op.simbolos[2]
             /\ Len(rs) = 2
             /\ rs[1].kind = "raise"
             /\ HasRows(rs[2])
             /\ Complete(rs[2].rows[1]) )
           => /\ ret.value[op.simbolos[1]] = None
              /\ BarOf(op.simbolos[2], rs[2].rows[1], ret.value[op.simbolos[2]])

\* Witness of C3: a batch of two symbols, the first without a quote because
\* the provider raised, the second with one.
MultiplesPartialSuccess ==
    /\ Finished("obtener_cotizaciones_multiples")
    /\ Len(op.simbolos) = 2
    /\ op.simbolos[1] # op.simbolos[2]
    /\ rs[1].kind = "raise"
    /\ ret.value[op.simbolos[1]] = None
    /\ ret.value[op.simbolos[2]].kind = "Cotizacion"

\* Why obtener_historico fails on the provider's answer a ("none": it does not).
Cause(a) ==
    IF a.kind = "raise" THEN "ProviderError"
    ELSE IF NoRows(a) THEN "NoDataInRange"
    ELSE IF Len(Survivors(a.rows)) = 0 THEN "NormalizationFailure"
    ELSE "none"

\* One provider answer of each failure cause.
FailingAnswers ==
    { Raised("HTTP Error 404"), DataFrame(<<>>), DataFrame(<<Row(1, {"Close"})>>) }

Contains(s, sub) ==
    \E i \in 1..(Len(s) - Len(sub) + 1) : SubSeq(s, i, i + Len(sub) - 1) = sub

\* C5: the message of every ERROR result of obtener_historico contains the
\* domain symbol of the request and the resolved provider symbol.
HistoricoErrorNamesBothSymbols ==
    (Finished("obtener_historico") /\ ret.value.estado = "ERROR") =>
        /\ Contains(ret.value.mensaje, op.solicitud.simbolo)
        /\ Contains(ret.value.mensaje, _get_yahoo_symbol(op.solicitud.simbolo))

\* C6: an OK result of obtener_historico has at least one bar, one per
\* surviving row, and metadata whose registros is the number of bars and whose
\* desde / hasta are the timestamps of the first / last bar, whatever bounds
\* the request had; an ERROR result has no bars and no metadata.
HistoricoMetadataFromBars ==
    (Finished("obtener_historico") /\ Len(rs) = 1) =>
        /\ ret.value.estado = "OK" =>
              LET datos == ret.value.datos
                  meta  == ret.value.metadata
                  kept  == Survivors(rs[1].rows)
              IN  /\ Len(datos) > 0
                  /\ Len(datos) = Len(kept)
                  /\ meta.kind = "MetadataHistorico"
                  /\ meta.registros = Len(datos)
                  /\ meta.desde = datos[1].timestamp
                  /\ meta.desde = datetime(kept[1].index.tick)
                  /\ meta.hasta = datos[Len(datos)].timestamp
                  /\ meta.hasta = datetime(kept[Len(kept)].index.tick)
        /\ ret.value.estado = "ERROR" =>
              ret.value.datos = <<>> /\ ret.value.metadata = None

\* Witness of C6: an OK result for a request with bounds, whose first raw row
\* was dropped and whose metadata does not repeat the requested bounds.
HistoricoOkOtherBounds ==
    /\ Finished("obtener_historico")
    /\ ret.value.estado = "OK"
    /\ op.solicitud.desde # None
    /\ op.solicitud.hasta # None
    /\ Len(ret.value.datos) < Len(rs[1].rows)
    /\ ret.value.metadata.desde # op.solicitud.desde
    /\ ret.value.metadata.hasta # op.solicitud.hasta

\* C7: the normalizer emits one bar for each row with open, high, low and
\* close all present and none for any other row (N rows of which M are
\* incomplete give N - M bars), in input order, never a bar with a missing
\* price, with volumen_nominal 0 when the row has no volume, and nothing for
\* an empty frame.
NormalizerKeepsCompleteRows ==
    (pc = "idle" /\ op.name = "_convert_yf_history_to_cotizaciones") =>
        LET out  == ret.value
            kept == Survivors(op.df)
            incomplete == { i \in 1..Len(op.df) : ~Complete(op.df[i]) }
        IN  /\ ret.kind = "return"
            /\ Len(out) = Len(op.df) - Cardinality(incomplete)
            /\ Len(out) = Len(kept)
            /\ \A i \in 1..Len(out) :
                  /\ BarOf(op.simbolo, kept[i], out[i])
                  /\ NaN \notin {out[i].apertura, out[i].maximo,
                                 out[i].minimo, out[i].cierre}
                  /\ out[i].volumen_nominal =
                        IF "Volume" \in DOMAIN kept[i] /\ kept[i].Volume # NaN
                        THEN kept[i].Volume ELSE 0
            /\ \A i, j \in 1..Len(out) :
                  i < j => out[i].timestamp.tick < out[j].timestamp.tick
            /\ Len(op.df) = 0 => out = <<>>

\* Witness of C7: two rows, the first without its close, the second complete
\* but without volume: one bar, of the second row, with volume 0.
NormalizerDropsAndDefaults ==
    /\ pc = "idle"
    /\ op.name = "_convert_yf_history_to_cotizaciones"
    /\ Len(op.df) = 2
    /\ op.df[1].Close = NaN
    /\ Complete(op.df[2])
    /\ "Volume" \in DOMAIN op.df[2]
    /\ op.df[2].Volume = NaN
    /\ Len(ret.value) = 1
    /\ ret.value[1].volumen_nominal = 0

\* C8: _get_yahoo_symbol always returns a non-empty string: the table entry
\* of a symbol in SIMBOLOS_MAPPING; the symbol with .BA appended when it is
\* not in the table and ends with neither .BA nor .ADR; the symbol itself
\* otherwise.
ResolverRules ==
    (pc = "idle" /\ op.name = "_get_yahoo_symbol") =>
        LET s == op.simbolo
            y == ret.value
            known == s \in DOMAIN SIMBOLOS_MAPPING
            suffixed == EndsWith(s, ".BA") \/ EndsWith(s, ".ADR")
        IN  /\ ret.kind = "return"
            /\ Len(y) > 0
            /\ known => y = SIMBOLOS_MAPPING[s]
            /\ (~known /\ ~suffixed) => y = s \o ".BA"
            /\ (~known /\ suffixed) => y = s
            /\ s = "UNKNOWN123" => y = "UNKNOWN123.BA"
            /\ s = "YPF" => y = "YPFD.BA"
            /\ s = "GGAL.ADR" => y = "GGAL"
            /\ s = "MERVAL" => y = "^MERV"
            /\ s = "AAPL.ADR" => y = "AAPL.ADR"
            /\ s = "AAPL.BA" => y = "AAPL.BA"

\* Witness of C8: the unknown symbol without suffix got .BA appended.
ResolverFallback ==
    /\ pc = "idle"
    /\ op.name = "_get_yahoo_symbol"
    /\ op.simbolo = "UNKNOWN123"
    /\ ret.value = "UNKNOWN123.BA"

\* C9: a cache entry, once made, is never changed or removed; the cache
\* changes only when obtener_activo finishes with an instrument, and then
\* only by gaining that instrument under its domain symbol; obtener_activo
\* for a cached symbol returns the cached instrument at once, without a
\* provider request.
CacheEntriesPermanent ==
    [][ /\ \A s \in DOMAIN cache : s \in DOMAIN cache' /\ cache'[s] = cache[s]
        /\ cache' # cache =>
              /\ pc' = "idle"
              /\ op'.name = "obtener_activo"
              /\ ret'.kind = "return"
              /\ ret'.value.kind = "ActivoFinanciero"
              /\ DOMAIN cache' = DOMAIN cache \cup {op'.simbolo}
              /\ cache'[op'.simbolo] = ret'.value
        /\ ( /\ pc = "idle"
             /\ op'.name = "obtener_activo"
             /\ op'.simbolo \in DOMAIN cache )
           => /\ pc' = "idle"
              /\ calls' = <<>>
              /\ ret' = Return(cache[op'.simbolo])
      ]_vars

\* Witness of C9: obtener_activo answered from the cache, with no request.
ActivoCacheHit ==
    /\ Finished("obtener_activo")
    /\ calls = <<>>
    /\ ret.value.kind = "ActivoFinanciero"
    /\ ret.value = cache[op.simbolo]

\* C10: on a cache miss with the metadata absent or its call failing,
\* obtener_activo asks for the 1d bars; when that request fails or brings no
\* rows it returns None and caches nothing, when it brings rows it returns
\* an instrument and caches it.
ActivoFallbackDecides ==
    ( /\ Finished("obtener_activo")
      /\ Len(rs) >= 2
      /\ (rs[1].kind = "raise" \/ NoInfo(rs[1])) )
    => /\ calls[2] = HistoryPeriod(_get_yahoo_symbol(op.simbolo), "1d")
       /\ (rs[2].kind = "raise" \/ NoRows(rs[2])) =>
              ret.value = None /\ op.simbolo \notin DOMAIN cache
       /\ HasRows(rs[2]) =>
              /\ ret.value.kind = "ActivoFinanciero"
              /\ op.simbolo \in DOMAIN cache
              /\ cache[op.simbolo] = ret.value

(***************************************************************************)
(* obtener_activo on its own, on an empty cache: Init draws the symbol,    *)
(* IniciarActivo starts the call, the provider answers its requests.       *)
(***************************************************************************)
\* Metadata the provider may hold besides InfoAnswers: a dict without either
\* name, and dicts whose long name (or both names) is the empty string.
InfoSinNombres ==
    { Dict([quoteType |-> "EQUITY"]),
      Dict([longName |-> "", shortName |-> "Galicia"]),
      Dict([longName |-> "", shortName |-> ""]),
      Dict([shortName |-> "Galicia"]) }

InitActivo ==
    /\ cache = <<>>
    /\ pc = "ready"
    /\ op \in { [name |-> "obtener_activo", simbolo |-> s] : s \in ResolveInputs }
    /\ calls = <<>>
    /\ rs = <<>>
    /\ ret = Running

IniciarActivo ==
    /\ pc = "ready"
    /\ op.name = "obtener_activo"
    /\ op' = op
    /\ Step(op, <<>>, <<>>)

ProviderReturnsOtherInfo ==
    /\ pc = "waiting"
    /\ Pending.cap = "info"
    /\ \E info \in InfoSinNombres : Answer(info)

NextActivo ==
    \/ IniciarActivo
    \/ ProviderRaises
    \/ ProviderReturnsFrame
    \/ ProviderReturnsInfo
    \/ ProviderReturnsOtherInfo

SpecActivo == InitActivo /\ [][NextActivo]_vars

\* obtener_activo finished with an instrument it built (not one from the cache).
ActivoBuilt ==
    /\ Finished("obtener_activo")
    /\ Len(calls) > 0
    /\ ret.kind = "return"
    /\ ret.value.kind = "ActivoFinanciero"

\* C11: the instrument obtener_activo builds has its type, market and
\* currency fixed by the domain symbol s and the provider symbol y, first
\* matching rule: y = ^MERV is BONO, y = ARGT is ETF, s ending in .ADR is
\* CEDEAR, anything else ACCION; y ending in .BA is BYMA/ARS, y without a dot
\* or starting with a caret is NYSE/USD, any other y is BYMA/ARS.  MERVAL is
\* BONO/NYSE/USD, and the currency is ARS exactly when the market is BYMA.
ActivoClassification ==
    ActivoBuilt =>
        LET s == op.simbolo
            y == _get_yahoo_symbol(op.simbolo)
            a == ret.value
            local == EndsWith(y, ".BA")
            bare  == ~HasDot(y) \/ StartsWith(y, "^")
        IN  /\ a.simbolo = s
            /\ a.simbolo_yahoo = y
            /\ y = "^MERV" => a.tipo = "BONO"
            /\ y = "ARGT" => a.tipo = "ETF"
            /\ (y \notin {"^MERV", "ARGT"} /\ EndsWith(s, ".ADR")) => a.tipo = "CEDEAR"
            /\ (y \notin {"^MERV", "ARGT"} /\ ~EndsWith(s, ".ADR")) => a.tipo = "ACCION"
            /\ local => (a.mercado = "BYMA" /\ a.moneda = "ARS")
            /\ (~local /\ bare) => (a.mercado = "NYSE" /\ a.moneda = "USD")
            /\ (~local /\ ~bare) => (a.mercado = "BYMA" /\ a.moneda = "ARS")
            /\ (a.moneda = "ARS") <=> (a.mercado = "BYMA")
            /\ s = "MERVAL" =>
                  (a.tipo = "BONO" /\ a.mercado = "NYSE" /\ a.moneda = "USD")
            /\ s = "GGAL.ADR" =>
                  (a.tipo = "CEDEAR" /\ a.mercado = "NYSE" /\ a.moneda = "USD")

\* Witness of C11: the index came back as a bond on NYSE in USD.
ActivoIndexIsBond ==
    /\ ActivoBuilt
    /\ op.simbolo = "MERVAL"
    /\ ret.value.tipo = "BONO"
    /\ ret.value.mercado = "NYSE"
    /\ ret.value.moneda = "USD"

\* The name under key in the metadata answer a, "" when a has none.
ProvidedName(a, key) ==
    IF a.kind = "dict" /\ key \in DOMAIN a.items THEN a.items[key] ELSE ""

\* C12: the denominacion of the instrument obtener_activo builds is the
\* provider's longName when the provider gave a non-empty one, else the
\* provider's shortName when it gave a non-empty one, else the domain symbol;
\* so it is the domain symbol when the provider gave no metadata and the
\* instrument was confirmed by the 1d bars only.
ActivoDisplayName ==
    ActivoBuilt =>
        LET long  == ProvidedName(rs[1], "longName")
            short == ProvidedName(rs[1], "shortName")
        IN  ret.value.denominacion =
                IF long # "" THEN long
                ELSE IF short # "" THEN short
                ELSE op.simbolo

\* v is a Python list (a sequence).
IsList(v) == DOMAIN v = 1..Len(v)

\* The shape of what the operation named name may return.
Structured(name, v) ==
    CASE name = "obtener_historico" ->
             /\ v.kind = "RespuestaHistorico"
             /\ v.estado \in {"OK", "ERROR"}
             /\ v.estado = "ERROR" => v.codigo_error \in {"DATA_002", "DATA_003"}
      [] name = "obtener_ultima_cotizacion" -> v.kind \in {"None", "Cotizacion"}
      [] name = "obtener_activo" -> v.kind \in {"None", "ActivoFinanciero"}
      [] name = "obtener_cotizaciones_multiples" ->
             \A s \in DOMAIN v : v[s].kind \in {"None", "Cotizacion"}
      [] name = "buscar_activos" ->
             /\ IsList(v)
             /\ Len(v) <= MaxResultados
             /\ \A i \in 1..Len(v) : v[i].kind = "ActivoFinanciero"

\* The most provider requests the operation o issues.
MostRequests(o) ==
    CASE o.name = "obtener_historico" -> 1
      [] o.name = "obtener_ultima_cotizacion" -> Len(Windows)
      [] o.name = "obtener_activo" -> 3
      [] o.name = "obtener_cotizaciones_multiples" -> Len(Windows) * Len(o.simbolos)
      [] o.name = "buscar_activos" -> 1

\* C13: whatever the provider does on each request (raise, empty frame, rows
\* with missing cells, complete rows), no client operation lets an exception
\* escape; each finishes after a bounded number of requests with a result of
\* its declared shape; obtener_ultima_cotizacion returns None when all three
\* windows came back empty and when any of its requests raised.
OperationsNeverRaise ==
    /\ ret.kind # "raise"
    /\ op.name # "none" => Len(calls) <= MostRequests(op)
    /\ (pc = "idle" /\ op.name # "none") =>
          /\ ret.kind = "return"
          /\ Structured(op.name, ret.value)
    /\ Finished("obtener_ultima_cotizacion") =>
          /\ (\E i \in 1..Len(rs) : rs[i].kind = "raise") => ret.value = None
          /\ (Len(rs) = Len(Windows) /\ \A i \in 1..Len(rs) : NoRows(rs[i]))
                => ret.value = None

\* Witness of C13: the search failed at the provider and an empty list came
\* back.
BuscarFailedQuietly ==
    /\ Finished("buscar_activos")
    /\ Len(rs) = 1
    /\ rs[1].kind = "raise"
    /\ ret = Return(<<>>)

(***************************************************************************)
(* The analyzer: one analysis on a fresh AnalizadorMercadoArgentino.  The  *)
(* provider holds one answer for each request, so a request made again     *)
(* within the analysis is answered as before.                              *)
(***************************************************************************)
\* Most bars of a short series.
MaxSerie == 3

\* Most symbols handed to calcular_matriz_correlacion.
MaxSimbolos == 2

\* The symbols of a report that fail or bring data each on its own: the
\* first MaxLibres in the order the report asks for them.  The others fail
\* or bring data together.
MaxLibres == 3

\* The close of day d of a series of each shape: unchanged, rising by a
\* growing step, alternating between two prices, alternating between two
\* prices further apart.
Shapes == {"flat", "rising", "zigzag", "swing"}

CloseOf(shape, d) ==
    CASE shape = "flat"   -> 1000
      [] shape = "rising" -> 1000 + 5 * d * (d - 1)
      [] shape = "zigzag" -> 1000 + 10 * (d % 2)
      [] shape = "swing"  -> 1000 + 20 * (d % 2)

Barra(d, shape) ==
    [index  |-> Timestamp(d * TicksPerDay + 1),
     Open   |-> CloseOf(shape, d),
     High   |-> CloseOf(shape, d) + 5,
     Low    |-> CloseOf(shape, d) - 5,
     Close  |-> CloseOf(shape, d),
     Volume |-> 5000]

\* The frame of the n days after day start.
Serie(start, n, shape) == DataFrame([i \in 1..n |-> Barra(start + i, shape)])

\* A frame whose first row lacks its close.
SerieIncompleta ==
    DataFrame(<<[Barra(1, "flat") EXCEPT !.Close = NaN], Barra(2, "flat")>>)

\* Short series of every shape, and series of MinDatosBeta days that start
\* on day 1 or day 2.  (A long rising series is left out: its daily changes
\* differ by less than 1/Precision.)
ShortSeries == { Serie(0, n, shape) : n \in 0..MaxSerie, shape \in Shapes }
LongSeries ==
    { Serie(start, MinDatosBeta, shape) :
        start \in {0, 1}, shape \in {"flat", "zigzag", "swing"} }

AnalyzerSeries == ShortSeries \cup LongSeries \cup {SerieIncompleta}

\* The DataFrame the analyzer makes of a provider frame (None when no bar
\* survives).
AsDataFrame(answer) ==
    obtener_dataframe_historico("GGAL", datetime(0), None, <<answer>>).value

\* DataFrames handed to calcular_rendimiento: None, the empty one, and the
\* ones the analyzer makes of the short series.
RendimientoInputs ==
    {None, DataFrame(<<>>)} \cup { AsDataFrame(answer) : answer \in ShortSeries }

\* The answer the provider gave to request req before, if it did.
Answered(req) == { i \in 1..Len(rs) : calls[i] = req }

\* The provider answers the pending request with a, as before if it
\* answered it before.
Consistent(a) == \A i \in Answered(Pending) : rs[i] = a

CallRendimiento ==
    /\ pc = "idle"
    /\ op.name = "none"
    /\ \E df \in RendimientoInputs :
          LET o == [name |-> "calcular_rendimiento", df |-> df]
          IN  op' = o /\ Step(o, <<>>, <<>>)

CallBeta ==
    /\ pc = "idle"
    /\ op.name = "none"
    /\ LET o == [name |-> "calcular_beta", simbolo |-> "GGAL", indice |-> "MERVAL",
                 desde |-> None, hasta |-> None]
       IN  op' = o /\ Step(o, <<>>, <<>>)

CallRatios ==
    /\ pc = "idle"
    /\ op.name = "none"
    /\ LET o == [name |-> "calcular_ratios", simbolo |-> "GGAL",
                 tasa_libre_riesgo |-> TasaLibreRiesgo,
                 desde |-> None, hasta |-> None]
       IN  op' = o /\ Step(o, <<>>, <<>>)

\* Symbol lists handed to calcular_matriz_correlacion, of MaxSimbolos symbols
\* at most.
MatrizSimbolos ==
    { SubSeq(<<"GGAL", "YPFD", "PAMP", "TXAR">>, 1, k) : k \in 1..MaxSimbolos }

CallMatrizCorrelacion ==
    /\ pc = "idle"
    /\ op.name = "none"
    /\ \E simbolos \in MatrizSimbolos, pad \in BOOLEAN :
          LET o == [name |-> "calcular_matriz_correlacion", simbolos |-> simbolos,
                    desde |-> datetime(1), hasta |-> None, pad |-> pad]
          IN  op' = o /\ Step(o, <<>>, <<>>)

\* The series the provider has for a symbol during a report: MinDatosBeta
\* days for the index and the first leader, MaxSerie days for the others.
SerieDe(simbolo_yahoo) ==
    IF simbolo_yahoo = "^MERV" THEN Serie(0, MinDatosBeta, "zigzag")
    ELSE IF simbolo_yahoo = "GGAL.BA" THEN Serie(0, MinDatosBeta, "swing")
    ELSE IF simbolo_yahoo = "PAMP.BA" THEN Serie(0, MaxSerie, "flat")
    ELSE Serie(0, MaxSerie, "rising")

\* The matrix is computed of short series, the report of the series of each
\* symbol, the other analyses of all.
SeriesFor(o) ==
    IF o.name = "calcular_matriz_correlacion"
    THEN ShortSeries \cup {SerieIncompleta}
    ELSE IF o.name = "generar_reporte_mercado"
    THEN {SerieDe(Pending.symbol)}
    ELSE AnalyzerSeries

\* The provider symbols of a report that fail or bring data on their own.
Libres ==
    { _get_yahoo_symbol((indices \o lideres)[i]) :
        i \in 1..(IF MaxLibres < Len(indices \o lideres) THEN MaxLibres
                  ELSE Len(indices \o lideres)) }

\* During a report the symbols that are not in Libres get answers of one
\* kind: all fail or all bring data.
Together(a) ==
    (op.name = "generar_reporte_mercado" /\ Pending.symbol \notin Libres) =>
        \A i \in 1..Len(rs) :
            (calls[i].cap = "history" /\ calls[i].symbol \notin Libres) =>
                rs[i].kind = a.kind

YahooRaises ==
    /\ pc = "waiting"
    /\ Pending.cap = "history"
    /\ \E e \in ErrorTexts :
          Consistent(Raised(e)) /\ Together(Raised(e)) /\ Answer(Raised(e))

YahooReturnsSeries ==
    /\ pc = "waiting"
    /\ Pending.cap = "history"
    /\ \E df \in SeriesFor(op) : Consistent(df) /\ Together(df) /\ Answer(df)

NextAnalizador ==
    \/ CallRendimiento
    \/ CallBeta
    \/ CallRatios
    \/ CallMatrizCorrelacion
    \/ YahooRaises
    \/ YahooReturnsSeries

SpecAnalizador == Init /\ [][NextAnalizador]_vars

(***************************************************************************)
(* The report: generar_reporte_mercado on a fresh analyzer.  Each symbol   *)
(* either fails or brings its series, and the instrument metadata is there *)
(* for every symbol that is asked about.                                   *)
(***************************************************************************)
CallReporte ==
    /\ pc = "idle"
    /\ op.name = "none"
    /\ \E pad \in BOOLEAN :
          LET o == [name |-> "generar_reporte_mercado", desde |-> None, pad |-> pad]
          IN  op' = o /\ Step(o, <<>>, <<>>)

YahooReturnsInfo ==
    /\ pc = "waiting"
    /\ Pending.cap = "info"
    /\ \E info \in {a \in InfoAnswers : ~NoInfo(a)} : Answer(info)

NextReporte ==
    \/ CallReporte
    \/ YahooRaises
    \/ YahooReturnsSeries
    \/ YahooReturnsInfo

SpecReporte == Init /\ [][NextReporte]_vars

\* The rows of provider answer a that become bars (none when it raised).
Bars(a) == IF a.kind = "DataFrame" THEN Survivors(a.rows) ELSE <<>>

\* x is the float zero.
IsZero(x) == x = F(0)

\* C14: calcular_rendimiento returns 0.0, 0.0, 0.0 for an empty series and
\* for a series of one bar, and its volatility is never NaN.
RendimientoZeroWhenDegenerate ==
    Finished("calcular_rendimiento") =>
        LET bars == IF op.df = None THEN 0 ELSE Len(op.df.rows)
        IN  /\ bars <= 1 => ret.value = <<F(0), F(0), F(0)>>
            /\ ~IsNaN(ret.value[3])

\* The dates the bars of answers a and b have in common.
CommonDates(a, b) ==
    { Bars(a)[i].index.tick : i \in 1..Len(Bars(a)) }
        \cap { Bars(b)[i].index.tick : i \in 1..Len(Bars(b)) }

\* The closes of answer a on the dates in dates, in order.
ClosesOn(a, dates) ==
    LET kept == SelectSeq(Bars(a), LAMBDA row : row.index.tick \in dates)
    IN  [i \in 1..Len(kept) |-> kept[i].Close]

\* Every day-over-day change of closes is the same (c[i]/c[i-1] is one
\* ratio), so the changes have no variance.
SameChange(closes) ==
    \A i, j \in 2..Len(closes) :
        closes[i] * closes[j - 1] = closes[j] * closes[i - 1]

\* C15: calcular_beta never raises; it returns a number exactly when both
\* series were retrieved, they share at least 30 dates and the index's
\* changes over those dates are not all the same; it returns None in every
\* other case, in particular with fewer than 30 common dates however many
\* bars each series has.
BetaOnlyWithEnoughData ==
    Finished("calcular_beta") =>
        LET common == CommonDates(rs[1], rs[2])
            able == /\ Len(Bars(rs[1])) > 0
                    /\ Len(Bars(rs[2])) > 0
                    /\ Cardinality(common) >= 30
                    /\ ~SameChange(ClosesOn(rs[2], common))
        IN  /\ ret.kind = "return"
            /\ Len(calls) = 2
            /\ able => ret.value.kind = "float"
            /\ ~able => ret.value = None

\* Witness of C15: both series have 30 bars, 29 of them on common dates, and
\* no beta came back.
BetaTooFewCommonDates ==
    /\ Finished("calcular_beta")
    /\ Len(Bars(rs[1])) >= 30
    /\ Len(Bars(rs[2])) >= 30
    /\ Cardinality(CommonDates(rs[1], rs[2])) = 29
    /\ ~SameChange(ClosesOn(rs[2], CommonDates(rs[1], rs[2])))
    /\ ret.value = None

\* The daily changes of the bars of answer a that are falls.
Falls(a) ==
    SelectSeq(dropna(pct_change([i \in 1..Len(Bars(a)) |-> Bars(a)[i].Close])),
              LAMBDA x : x.n < 0)

\* C16: calcular_ratios returns {} when the retrieval failed and when the
\* series has too few bars for a daily change; every ratio of a non-empty
\* result is a number, ratio_sharpe is 0 when the annualized volatility is
\* zero and ratio_sortino is 0 when the downside volatility (that of the
\* falls, or the annualized one when nothing fell) is zero.
RatiosEmptyOrDefined ==
    Finished("calcular_ratios") =>
        LET ratios == ret.value
        IN  /\ Len(Bars(rs[1])) <= 1 => ratios = <<>>
            /\ ratios # <<>> =>
                  /\ \A k \in DOMAIN ratios : ~IsNaN(ratios[k])
                  /\ IsZero(ratios.volatilidad_anualizada) =>
                        IsZero(ratios.ratio_sharpe)
                  /\ ( \/ Len(Falls(rs[1])) > 0 /\ IsZero(std(Falls(rs[1])))
                       \/ Len(Falls(rs[1])) = 0
                            /\ IsZero(ratios.volatilidad_anualizada) )
                     => IsZero(ratios.ratio_sortino)

\* The symbols of the finished analysis whose retrieval brought bars, in the
\* order they were asked for (the i-th request is for the i-th symbol).
Retrieved(simbolos) ==
    SelectSeq(simbolos,
              LAMBDA s : \E i \in 1..Len(simbolos) :
                            simbolos[i] = s /\ Len(Bars(rs[i])) > 0)

\* C17: calcular_matriz_correlacion never raises and asks for each symbol;
\* it returns None exactly when no symbol brought data, and otherwise a
\* matrix whose rows and columns are exactly the symbols that brought data.
MatrizOverRetrievedSymbols ==
    Finished("calcular_matriz_correlacion") =>
        LET retrieved == Retrieved(op.simbolos)
        IN  /\ ret.kind = "return"
            /\ Len(calls) = Len(op.simbolos)
            /\ Len(retrieved) = 0 <=> ret.value = None
            /\ Len(retrieved) > 0 =>
                  /\ ret.value.columns = retrieved
                  /\ DOMAIN ret.value.values = 1..Len(retrieved)
                  /\ \A a \in 1..Len(retrieved) :
                        DOMAIN ret.value.values[a] = 1..Len(retrieved)

\* Witness of C17: the first symbol failed, the second brought data, and the
\* matrix is over the second alone.
MatrizOmitsFailedSymbol ==
    /\ Finished("calcular_matriz_correlacion")
    /\ Len(op.simbolos) = 2
    /\ rs[1].kind = "raise"
    /\ Len(Bars(rs[2])) > 0
    /\ ret.value # None
    /\ ret.value.columns = <<op.simbolos[2]>>

\* C18: the matrix is symmetric and its diagonal entry is 1.0 for every
\* symbol in it that has at least 2 data points.
MatrizSymmetricUnitDiagonal ==
    (Finished("calcular_matriz_correlacion") /\ ret.value # None) =>
        LET matriz == ret.value
            n == Len(matriz.columns)
            puntos(a) ==
                Len(Bars(rs[CHOOSE i \in 1..Len(op.simbolos) :
                                op.simbolos[i] = matriz.columns[a]]))
        IN  /\ \A a, b \in 1..n : matriz.values[a][b] = matriz.values[b][a]
            /\ \A a \in 1..n :
                  puntos(a) >= 2 => matriz.values[a][a] = F(Precision)

\* The history requests of the finished analysis for the provider symbol of
\* simbolo.
Fetches(simbolo) ==
    { i \in 1..Len(calls) :
        calls[i].cap = "history" /\ calls[i].symbol = _get_yahoo_symbol(simbolo) }

\* The provider has bars for simbolo: some request for it was answered with
\* a row that becomes a bar.
Available(simbolo) == \E i \in Fetches(simbolo) : Len(Bars(rs[i])) > 0

SeqToSet(s) == { s[i] : i \in 1..Len(s) }

\* C19: generar_reporte_mercado always returns a report; its indices and
\* lideres mappings hold exactly the index and leader symbols whose
\* retrieval brought data.
ReporteAlwaysReturned ==
    Finished("generar_reporte_mercado") =>
        /\ ret.kind = "return"
        /\ DOMAIN ret.value.indices = { s \in SeqToSet(indices) : Available(s) }
        /\ DOMAIN ret.value.lideres = { s \in SeqToSet(lideres) : Available(s) }

\* Witness of C19: every retrieval failed and the report came back with
\* nothing in it.
ReporteOfNothing ==
    /\ Finished("generar_reporte_mercado")
    /\ \A i \in 1..Len(rs) : rs[i].kind = "raise"
    /\ ret.kind = "return"
    /\ DOMAIN ret.value.indices = {}
    /\ DOMAIN ret.value.lideres = {}
    /\ ret.value.matriz_correlacion = None

\* C20: while one report is built the series of each index and leader
\* symbol is fetched from the provider exactly once.
ReporteFetchesEachSeriesOnce ==
    Finished("generar_reporte_mercado") =>
        \A s \in SeqToSet(indices) \cup SeqToSet(lideres) :
            Cardinality(Fetches(s)) = 1

(***************************************************************************)
(* Repeated provider requests                                              *)
(***************************************************************************)
\* C21: within one call of obtener_historico or of obtener_activo no
\* provider request (same capability, same provider symbol, same window) is
\* issued twice; in particular obtener_activo asks for the 1d bars at most
\* once.
NoRequestRepeated ==
    op.name \in {"obtener_historico", "obtener_activo"} =>
        \A i, j \in 1..Len(calls) : calls[i] = calls[j] => i = j

(***************************************************************************)
(* The adjusted flag of obtener_historico                                  *)
(***************************************************************************)
\* C22: in every OK answer of obtener_historico the ajustado flag of each
\* bar, the ajustado flag of the metadata and the auto_adjust flag the
\* provider was asked with are the same, whether the request says
\* ajustado=True or ajustado=False.
HistoricoAdjustedFlagsAgree ==
    (Finished("obtener_historico") /\ ret.value.estado = "OK") =>
        /\ ret.value.metadata.ajustado = calls[1].auto_adjust
        /\ \A i \in 1..Len(ret.value.datos) :
              ret.value.datos[i].ajustado = calls[1].auto_adjust

(***************************************************************************)
(* The server: requests arrive one at a time at the shared client          *)
(***************************************************************************)
\* Bodies of POST /historico.
HistoricoRequests ==
    { HistoricoRequest(simbolo, rango[1], rango[2], "DIA_1") :
        simbolo \in ClientSymbols, rango \in Rangos }

PostHistorico ==
    /\ pc = "idle"
    /\ \E req \in HistoricoRequests :
          LET o == [name |-> "post_historico", req |-> req]
          IN  op' = o /\ Step(o, <<>>, <<>>)

GetActivo ==
    /\ pc = "idle"
    /\ \E simbolo \in CachedSymbols :
          LET o == [name |-> "get_activo", simbolo |-> simbolo]
          IN  op' = o /\ Step(o, <<>>, <<>>)

GetUltima ==
    /\ pc = "idle"
    /\ \E simbolo \in ClientSymbols :
          LET o == [name |-> "get_ultima", simbolo |-> simbolo]
          IN  op' = o /\ Step(o, <<>>, <<>>)

NextServer ==
    \/ PostHistorico
    \/ GetActivo
    \/ GetUltima
    \/ ProviderRaises
    \/ ProviderReturnsFrame
    \/ ProviderReturnsInfo

SpecServer == Init /\ [][NextServer]_vars

HasCompleteRow(a) ==
    a.kind = "DataFrame" /\ \E i \in 1..Len(a.rows) : ~SkipRow(a.rows[i])

\* C23: POST /historico gives the client a request with every field that
\* obtener_historico reads, so the provider is asked for the series and,
\* when it returns at least one complete row, the response is OK with that
\* data.
PostHistoricoServesData ==
    Finished("post_historico") =>
        /\ Len(calls) = 1
        /\ HasCompleteRow(rs[1]) =>
              /\ ret.value.estado = "OK"
              /\ Len(ret.value.datos) > 0

====
